---- MODULE Spec2Model ----
(***************************************************************************)
(* Legora Trust-Architect: the document store (services/ingestion.py), the *)
(* validation engine (services/validator.py) and the draft / validate /    *)
(* retry loop (services/agent.py), modelled as a state machine.            *)
(***************************************************************************)
EXTENDS Integers, Sequences, FiniteSets, TLC

(***************************************************************************)
(* Bounds of the model.                                                    *)
(***************************************************************************)
MaxRetries == 3        \* MAX_VALIDATION_RETRIES is drawn from 1..MaxRetries
MaxCalls == 2          \* store calls each thread makes in SpecStore
MaxStreamRetries == 2  \* MAX_VALIDATION_RETRIES is drawn from 1..MaxStreamRetries in SpecStream
MaxClauses == 2        \* clauses of an output validate_output is called with directly
MaxDocLines == 5       \* lines of a document _parse_citations is called with directly
MaxChunkLines == 5     \* lines of a document _chunk_document is called with directly
MaxStoreChunks == 21   \* chunks of one document in the store _get_relevant_context reads
MaxRunRetries == 1     \* MAX_VALIDATION_RETRIES of two runs in parallel
MaxRequests == 3       \* requests the auth endpoints answer
MaxIdLen == 2          \* characters of a user id validate_file_access is called with
MaxPathLen == 4        \* characters of a path after its first word

Threads == {1, 2}

None == "None"

(***************************************************************************)
(* Source documents.  A document is a sequence of lines; a line is a       *)
(* heading (level 1..6), an anchor [SourceID: X], a horizontal rule, a     *)
(* blank line or a line of text.  len is the number of characters.         *)
(***************************************************************************)
H(level, title) == [kind |-> "heading", level |-> level, title |-> title, id |-> None, len |-> level + 1 + 10]
A(id) == [kind |-> "anchor", level |-> 0, title |-> None, id |-> id, len |-> 15]
T(words, len) == [kind |-> "text", level |-> 0, title |-> words, id |-> None, len |-> len]
HR == [kind |-> "hr", level |-> 0, title |-> None, id |-> None, len |-> 3]
Blank == [kind |-> "blank", level |-> 0, title |-> None, id |-> None, len |-> 0]

DpaContent ==
  << H(1, "Data Processing Agreement"),
     A("DPA-1.1"), T("intro", 40),
     H(2, "Security"),
     A("DPA-7.1"), T("measures", 300), Blank,
     A("DPA-7.2"), T("audit", 400), Blank,
     A("SHARED-1"), T("dpa wording", 350),
     H(2, "Breach"),
     A("DPA-9.1"), HR >>

MsaContent ==
  << A("MSA-0"), T("preamble", 30),
     H(2, "Liability"),
     A("SHARED-1"), T("msa wording", 60),
     H(3, "Caps"),
     A("MSA-2.1"), T("cap", 50),
     A("MSA-2.1"), T("cap revised", 20) >>

FileNames == {"legora_dpa.md", "notes.txt", "zegal_msa.md"}

\* the file names in the order sorted() gives them
FileOrder == <<"legora_dpa.md", "notes.txt", "zegal_msa.md">>

IsMd(name) == name \in {"legora_dpa.md", "zegal_msa.md"}

Stem(name) ==
  CASE name = "legora_dpa.md" -> "legora_dpa"
    [] name = "zegal_msa.md" -> "zegal_msa"
    [] OTHER -> "notes"

FileContent(name) ==
  CASE name = "legora_dpa.md" -> DpaContent
    [] name = "zegal_msa.md" -> MsaContent
    [] OTHER -> << T("notes", 5) >>

DefaultDir == "data/source_documents"
AltDir == "alt"
Dirs == {DefaultDir, AltDir}

(***************************************************************************)
(* ingestion.py: pure helpers.                                             *)
(***************************************************************************)
ChunkSize == 800

EmptyDict == [k \in {} |-> None]

\* mutant: an id that is in the index already keeps its entry
DictUpdateKeepFirst(a, b) ==
  [k \in (DOMAIN a) \cup (DOMAIN b) |-> IF k \in DOMAIN a THEN a[k] ELSE b[k]]

\* dict.update(b): keys of b overwrite those of a
DictUpdate(a, b) ==
  [k \in (DOMAIN a) \cup (DOMAIN b) |-> IF k \in DOMAIN b THEN b[k] ELSE a[k]]

MinOf(S) == CHOOSE x \in S : \A y \in S : x <= y
MaxOf(S) == CHOOSE x \in S : \A y \in S : x >= y

RECURSIVE SumLen(_)
SumLen(lines) ==
  IF lines = <<>> THEN 0 ELSE Head(lines).len + SumLen(Tail(lines))

\* len() of the lines joined by "\n"
StrLen(lines) == IF lines = <<>> THEN 0 ELSE SumLen(lines) + (Len(lines) - 1)

\* SOURCE_ID_PATTERN.findall
SourceIds(lines) ==
  LET anchors == SelectSeq(lines, LAMBDA l : l.kind = "anchor")
  IN [k \in 1..Len(anchors) |-> anchors[k].id]

ExtractTitle(content) ==
  LET h1 == {i \in 1..Len(content) : content[i].kind = "heading" /\ content[i].level = 1}
  IN IF h1 = {} THEN "Untitled" ELSE content[MinOf(h1)].title

ExtractSections(content) ==
  LET h2 == SelectSeq(content, LAMBDA l : l.kind = "heading" /\ l.level = 2)
  IN [k \in 1..Len(h2) |-> h2[k].title]

\* the most recent heading (of any level, HEADING_PATTERN is #{1,6}) before position
GetCurrentHeading(content, position) ==
  LET before == {i \in 1..Len(content) : i < position /\ content[i].kind = "heading"}
  IN IF before = {} THEN "Introduction" ELSE content[MaxOf(before)].title

\* index of the next anchor after line i, or one past the end
NextAnchor(content, i) ==
  LET later == {j \in (i + 1)..Len(content) : content[j].kind = "anchor"}
  IN IF later = {} THEN Len(content) + 1 ELSE MinOf(later)

\* the text is cut at the next anchor or heading only
CitationTextThroughRules(content, i) ==
  LET end == NextAnchor(content, i)
      stops == {j \in (i + 1)..(end - 1) : content[j].kind = "heading"}
      cut == IF stops = {} THEN end ELSE MinOf(stops)
      texts == SelectSeq(SubSeq(content, i + 1, cut - 1), LAMBDA l : l.kind = "text")
  IN [k \in 1..Len(texts) |-> texts[k].title]

\* the text lines after anchor i, cut at the next anchor, heading or rule
CitationText(content, i) ==
  LET end == NextAnchor(content, i)
      stops == {j \in (i + 1)..(end - 1) : content[j].kind \in {"heading", "hr"}}
      cut == IF stops = {} THEN end ELSE MinOf(stops)
      texts == SelectSeq(SubSeq(content, i + 1, cut - 1), LAMBDA l : l.kind = "text")
  IN [k \in 1..Len(texts) |-> texts[k].title]

RECURSIVE ParseFrom(_, _, _, _)
ParseFrom(content, document_name, i, citations) ==
  IF i > Len(content) THEN citations
  ELSE IF content[i].kind = "anchor" /\ CitationText(content, i) # <<>>
       THEN ParseFrom(content, document_name, i + 1,
              DictUpdate(citations,
                content[i].id :> [source_id |-> content[i].id,
                                  text |-> CitationText(content, i),
                                  document_name |-> document_name,
                                  section_heading |-> GetCurrentHeading(content, i)]))
       ELSE ParseFrom(content, document_name, i + 1, citations)

ParseCitations(content, document_name) ==
  ParseFrom(content, document_name, 1, EmptyDict)

\* re.split(r"\n(?=##\s)"): a section starts at line 1 and at every later "## " line
SectionStarts(content) ==
  {1} \cup {i \in 2..Len(content) : content[i].kind = "heading" /\ content[i].level = 2}

SectionLines(content, start) ==
  LET later == {j \in SectionStarts(content) : j > start}
      end == IF later = {} THEN Len(content) ELSE MinOf(later) - 1
  IN SubSeq(content, start, end)

\* section.split("\n\n"): the paragraphs between blank lines
RECURSIVE Paragraphs(_, _)
Paragraphs(lines, cur) ==
  IF lines = <<>> THEN << cur >>
  ELSE IF Head(lines).kind = "blank"
       THEN << cur >> \o Paragraphs(Tail(lines), <<>>)
       ELSE Paragraphs(Tail(lines), Append(cur, Head(lines)))

MkChunk(document_name, section_idx, sub_idx, lines, ids) ==
  [chunk_id |-> <<document_name, section_idx, sub_idx>>,
   text |-> lines,
   document_name |-> document_name,
   source_ids |-> ids]

\* the paragraph loop of an oversized section; st is (current_chunk, current_ids, sub_idx)
RECURSIVE SplitParas(_, _, _, _, _)
SplitParas(paras, document_name, section_idx, st, chunks) ==
  IF paras = <<>>
  THEN IF StrLen(st.cur) > 0
       THEN Append(chunks, MkChunk(document_name, section_idx, st.sub, st.cur, st.ids))
       ELSE chunks
  ELSE LET para == Head(paras) IN
       IF StrLen(st.cur) + StrLen(para) > ChunkSize /\ StrLen(st.cur) > 0
       THEN SplitParas(Tail(paras), document_name, section_idx,
              [cur |-> para, ids |-> SourceIds(para), sub |-> st.sub + 1],
              Append(chunks, MkChunk(document_name, section_idx, st.sub, st.cur, st.ids)))
       ELSE SplitParas(Tail(paras), document_name, section_idx,
              [cur |-> IF st.cur # <<>> THEN st.cur \o << Blank >> \o para ELSE para,
               ids |-> st.ids \o SourceIds(para),
               sub |-> st.sub],
              chunks)

RECURSIVE ChunkSections(_, _, _, _)
ChunkSections(content, document_name, starts, section_idx) ==
  IF starts = {} THEN <<>>
  ELSE LET s == MinOf(starts)
           section == SectionLines(content, s)
           here == IF StrLen(section) <= ChunkSize
                   THEN << MkChunk(document_name, section_idx, -1, section, SourceIds(section)) >>
                   ELSE SplitParas(Paragraphs(section, <<>>), document_name, section_idx,
                                   [cur |-> <<>>, ids |-> <<>>, sub |-> 0], <<>>)
       IN here \o ChunkSections(content, document_name, starts \ {s}, section_idx + 1)

ChunkDocument(content, document_name) ==
  ChunkSections(content, document_name, SectionStarts(content), 0)

\* sorted(doc_dir.glob("*.md"))
SortedMd(files) == SelectSeq(FileOrder, LAMBDA n : n \in files /\ IsMd(n))

(***************************************************************************)
(* models/constraints.py and services/validator.py.  A text is a sequence  *)
(* of words; str.lower() and the regular expressions act on the words.     *)
(***************************************************************************)
Lower(w) ==
  CASE w = "Unlimited" -> "unlimited"
    [] w = "Liability" -> "liability"
    [] w = "GDPR" -> "gdpr"
    [] w = "Breach" -> "breach"
    [] w = "UNLIMITED" -> "unlimited"
    [] w = "LIABILITY" -> "liability"
    [] w = "Consequential" -> "consequential"
    [] OTHER -> w

LowerText(text) == [k \in 1..Len(text) |-> Lower(text[k])]

\* the words of phrase occur next to each other in text
ContainsPhrase(text, phrase) ==
  \E i \in 1..(Len(text) - Len(phrase) + 1) : SubSeq(text, i, i + Len(phrase) - 1) = phrase

\* re.search(pattern, text) for a pattern that compiles
Search(pattern, text) ==
  IF pattern.ignore_case
  THEN ContainsPhrase(LowerText(text), LowerText(pattern.phrase))
  ELSE ContainsPhrase(text, pattern.phrase)

\* a field is a tuple of its parts: <<"clause_length", title>> is f"clause_length.{title}"
Violation(field, message, severity, suggestion) ==
  [field |-> field, message |-> message, severity |-> severity, suggestion |-> suggestion]

\* " ".join(clause.text for clause in output.clauses)
RECURSIVE JoinTexts(_)
JoinTexts(clauses) ==
  IF clauses = <<>> THEN <<>> ELSE Head(clauses).text \o JoinTexts(Tail(clauses))

GetFullText(output) == JoinTexts(output.clauses)

CheckJurisdiction(output, constraints) ==
  IF output.governing_jurisdiction # constraints.governing_jurisdiction
  THEN << Violation(<<"governing_jurisdiction">>,
                    <<"Expected jurisdiction", constraints.governing_jurisdiction,
                      output.governing_jurisdiction>>,
                    "high",
                    <<"Change the governing jurisdiction to", constraints.governing_jurisdiction>>) >>
  ELSE <<>>

\* each pattern searched in each clause apart, one violation per clause it occurs in
CheckForbiddenClausesPerClause(output, constraints) ==
  LET hitsIn(c) == SelectSeq(constraints.forbidden_clauses, LAMBDA f : Search(f.pattern, c.text))
      RECURSIVE All(_)
      All(cs) == IF cs = <<>> THEN <<>> ELSE hitsIn(Head(cs)) \o All(Tail(cs))
      hits == All(output.clauses)
  IN [k \in 1..Len(hits) |->
        Violation(<<"forbidden_clause">>,
                  <<"Forbidden pattern detected", hits[k].pattern.source, hits[k].reason>>,
                  hits[k].severity,
                  <<"Remove or rephrase any language matching", hits[k].pattern.source>>)]

CheckForbiddenClauses(output, constraints) ==
  LET hits == SelectSeq(constraints.forbidden_clauses,
                        LAMBDA f : Search(f.pattern, GetFullText(output)))
  IN [k \in 1..Len(hits) |->
        Violation(<<"forbidden_clause">>,
                  <<"Forbidden pattern detected", hits[k].pattern.source, hits[k].reason>>,
                  hits[k].severity,
                  <<"Remove or rephrase any language matching", hits[k].pattern.source>>)]

\* re.search raises re.error on a pattern that does not compile
ForbiddenClausesRaise(constraints) ==
  \E k \in 1..Len(constraints.forbidden_clauses) : ~constraints.forbidden_clauses[k].pattern.compiles

\* cited_ids: the source ids cited by any clause
CitedIdSet(output) ==
  UNION { {output.clauses[c].citations[k] : k \in 1..Len(output.clauses[c].citations)} :
          c \in 1..Len(output.clauses) }

\* only the citations of the first clause count
CheckRequiredCitationsFirstClause(output, constraints) ==
  LET first == output.clauses[1].citations
      missing == SelectSeq(constraints.required_source_ids,
                           LAMBDA id : id \notin {first[k] : k \in 1..Len(first)})
  IN [k \in 1..Len(missing) |->
        Violation(<<"required_citations">>,
                  <<"Required citation is missing", missing[k]>>,
                  "medium",
                  <<"Include a citation to", missing[k]>>)]

CheckRequiredCitations(output, constraints) ==
  LET missing == SelectSeq(constraints.required_source_ids,
                           LAMBDA id : id \notin CitedIdSet(output))
  IN [k \in 1..Len(missing) |->
        Violation(<<"required_citations">>,
                  <<"Required citation is missing", missing[k]>>,
                  "medium",
                  <<"Include a citation to", missing[k]>>)]

\* the text is searched as written, without str.lower()
CheckLiabilityCaseSensitive(output, constraints) ==
  LET full_text == GetFullText(output) IN
  (IF ~constraints.liability.allows_unlimited_liability
      /\ ContainsPhrase(full_text, <<"unlimited", "liability">>)
   THEN << Violation(<<"liability.unlimited">>,
                     <<"Output contains unlimited liability">>,
                     "critical",
                     <<"Replace unlimited liability with a capped liability clause">>) >>
   ELSE <<>>)
  \o
  (IF ~constraints.liability.allows_consequential_damages
      /\ (\/ ContainsPhrase(full_text, <<"consequential", "damage">>)
          \/ ContainsPhrase(full_text, <<"consequential", "damages">>))
   THEN << Violation(<<"liability.consequential_damages">>,
                     <<"Output mentions consequential damages">>,
                     "high",
                     <<"Add exclusion language for consequential and indirect damages">>) >>
   ELSE <<>>)

CheckLiability(output, constraints) ==
  LET full_text == LowerText(GetFullText(output)) IN
  (IF ~constraints.liability.allows_unlimited_liability
      /\ ContainsPhrase(full_text, <<"unlimited", "liability">>)
   THEN << Violation(<<"liability.unlimited">>,
                     <<"Output contains unlimited liability">>,
                     "critical",
                     <<"Replace unlimited liability with a capped liability clause">>) >>
   ELSE <<>>)
  \o
  (IF ~constraints.liability.allows_consequential_damages
      /\ (\/ ContainsPhrase(full_text, <<"consequential", "damage">>)
          \/ ContainsPhrase(full_text, <<"consequential", "damages">>))
   THEN << Violation(<<"liability.consequential_damages">>,
                     <<"Output mentions consequential damages">>,
                     "high",
                     <<"Add exclusion language for consequential and indirect damages">>) >>
   ELSE <<>>)

\* a violation as soon as one of the two words or phrases is missing
CheckDataProtectionEither(output, constraints) ==
  LET full_text == LowerText(GetFullText(output))
      dp == constraints.data_protection
  IN
  (IF dp.requires_gdpr_compliance
      /\ (\/ ~ContainsPhrase(full_text, <<"gdpr">>)
          \/ ~ContainsPhrase(full_text, <<"general", "data", "protection">>))
   THEN << Violation(<<"data_protection.gdpr">>,
                     <<"GDPR compliance is required but no GDPR reference found">>,
                     "high",
                     <<"Include explicit reference to GDPR compliance">>) >>
   ELSE <<>>)
  \o
  (IF dp.requires_breach_notification
      /\ (\/ ~ContainsPhrase(full_text, <<"breach">>)
          \/ ~ContainsPhrase(full_text, <<"notification">>))
   THEN << Violation(<<"data_protection.breach_notification">>,
                     <<"Breach notification clause is required but not found">>,
                     "high",
                     <<"Include a breach notification clause", dp.max_breach_notification_hours>>) >>
   ELSE <<>>)

CheckDataProtection(output, constraints) ==
  LET full_text == LowerText(GetFullText(output))
      dp == constraints.data_protection
  IN
  (IF dp.requires_gdpr_compliance
      /\ ~ContainsPhrase(full_text, <<"gdpr">>)
      /\ ~ContainsPhrase(full_text, <<"general", "data", "protection">>)
   THEN << Violation(<<"data_protection.gdpr">>,
                     <<"GDPR compliance is required but no GDPR reference found">>,
                     "high",
                     <<"Include explicit reference to GDPR compliance">>) >>
   ELSE <<>>)
  \o
  (IF dp.requires_breach_notification
      /\ ~ContainsPhrase(full_text, <<"breach">>)
      /\ ~ContainsPhrase(full_text, <<"notification">>)
   THEN << Violation(<<"data_protection.breach_notification">>,
                     <<"Breach notification clause is required but not found">>,
                     "high",
                     <<"Include a breach notification clause", dp.max_breach_notification_hours>>) >>
   ELSE <<>>)

CheckClauseLength(output, constraints) ==
  LET long == SelectSeq(output.clauses, LAMBDA c : Len(c.text) > constraints.max_clause_length)
  IN [k \in 1..Len(long) |->
        Violation(<<"clause_length", long[k].title>>,
                  <<"Clause exceeds the limit", long[k].title, Len(long[k].text),
                    constraints.max_clause_length>>,
                  "low",
                  <<"Shorten this clause", constraints.max_clause_length>>)]

\* the checks stop at the first one that reports a violation
AllViolationsStopAtFirst(output, constraints) ==
  IF CheckJurisdiction(output, constraints) # <<>> THEN CheckJurisdiction(output, constraints)
  ELSE IF CheckForbiddenClauses(output, constraints) # <<>>
       THEN CheckForbiddenClauses(output, constraints)
  ELSE IF CheckRequiredCitations(output, constraints) # <<>>
       THEN CheckRequiredCitations(output, constraints)
  ELSE IF CheckLiability(output, constraints) # <<>> THEN CheckLiability(output, constraints)
  ELSE IF CheckDataProtection(output, constraints) # <<>>
       THEN CheckDataProtection(output, constraints)
  ELSE CheckClauseLength(output, constraints)

AllViolations(output, constraints) ==
  CheckJurisdiction(output, constraints)
  \o CheckForbiddenClauses(output, constraints)
  \o CheckRequiredCitations(output, constraints)
  \o CheckLiability(output, constraints)
  \o CheckDataProtection(output, constraints)
  \o CheckClauseLength(output, constraints)

ValidationResult(is_valid, violations) ==
  [is_valid |-> is_valid, violations |-> violations, attempt_number |-> 1]

\* mutant: one violation is tolerated
IsValidLoose(violations) == Len(violations) <= 1

\* is_valid = len(violations) == 0
IsValid(violations) == Len(violations) = 0

\* validate_output, for a profile whose patterns compile
ValidateOutput(output, constraints) ==
  LET violations == AllViolations(output, constraints)
  IN ValidationResult(IsValid(violations), violations)

(***************************************************************************)
(* The profiles and the gateway outputs the runs are checked with.         *)
(***************************************************************************)
Pattern(source, phrase, ignore_case, compiles) ==
  [source |-> source, phrase |-> phrase, ignore_case |-> ignore_case, compiles |-> compiles]

Forbidden(pattern, reason, severity) ==
  [pattern |-> pattern, reason |-> reason, severity |-> severity]

DpaProfile ==
  [contract_type |-> "Data Processing Agreement",
   governing_jurisdiction |-> "European Union",
   liability |-> [allows_consequential_damages |-> FALSE, allows_unlimited_liability |-> FALSE],
   data_protection |-> [requires_gdpr_compliance |-> TRUE, requires_breach_notification |-> TRUE,
                        max_breach_notification_hours |-> 36],
   forbidden_clauses |-> << Forbidden(Pattern("(?i)unlimited\\s+liability",
                                              <<"unlimited", "liability">>, TRUE, TRUE),
                                      "Unlimited liability is never acceptable in DPAs.", "critical") >>,
   required_source_ids |-> <<"DPA-7.1">>,
   max_clause_length |-> 4]

\* a profile one of whose patterns is not a regular expression
BrokenProfile ==
  [DpaProfile EXCEPT !.forbidden_clauses =
     << Forbidden(Pattern("(unclosed", <<>>, FALSE, FALSE), "bad pattern", "high") >>]

PrivacyProfile ==
  [contract_type |-> "Privacy Policy",
   governing_jurisdiction |-> "European Union",
   liability |-> [allows_consequential_damages |-> FALSE, allows_unlimited_liability |-> TRUE],
   data_protection |-> [requires_gdpr_compliance |-> TRUE, requires_breach_notification |-> FALSE,
                        max_breach_notification_hours |-> 72],
   forbidden_clauses |-> <<>>,
   required_source_ids |-> <<>>,
   max_clause_length |-> 4]

Profiles == {DpaProfile, BrokenProfile, PrivacyProfile}

Clause(title, text, citations) == [title |-> title, text |-> text, citations |-> citations]

GoodOutput ==
  [clauses |-> << Clause("Security", <<"GDPR", "breach", "notification">>, <<"DPA-7.1">>) >>,
   governing_jurisdiction |-> "European Union", confidence_score |-> 90]

WrongJurisdictionOutput == [GoodOutput EXCEPT !.governing_jurisdiction = "Sweden"]

UnlimitedOutput ==
  [clauses |-> << Clause("Liability", <<"Unlimited", "liability", "applies">>, <<>>),
                  Clause("Scope", <<"general", "data", "protection", "rules", "apply">>, <<"DPA-9.1">>) >>,
   governing_jurisdiction |-> "European Union", confidence_score |-> 90]

Outputs == {GoodOutput, WrongJurisdictionOutput, UnlimitedOutput}

(***************************************************************************)
(* The outputs and profiles validate_output is called with directly.       *)
(***************************************************************************)
ClausePool ==
  { Clause("Security", <<"GDPR", "breach", "notification">>, <<"DPA-7.1">>),
    Clause("Liability", <<"Unlimited", "liability", "applies">>, <<>>),
    Clause("Scope", <<"general", "data", "protection", "rules", "apply">>, <<"DPA-9.1">>),
    Clause("Damages", <<"no", "consequential", "damages">>, <<"DPA-7.1", "DPA-9.1">>),
    Clause("Cap", <<"liability", "is", "unlimited">>, <<>>),
    Clause("Carve", <<"liability", "for", "Consequential", "damage">>, <<>>),
    Clause("Twice", <<"UNLIMITED", "LIABILITY", "unlimited", "liability">>, <<"DPA-9.1">>) }

\* AgentOutput.clauses has at least one clause
ClauseLists == UNION { [1..n -> ClausePool] : n \in 1..MaxClauses }

DirectOutputs ==
  { [clauses |-> cs, governing_jurisdiction |-> j, confidence_score |-> 90] :
      cs \in ClauseLists, j \in {"European Union", "Sweden"} }

NoUnlimited ==
  Forbidden(Pattern("(?i)unlimited\\s+liability", <<"unlimited", "liability">>, TRUE, TRUE),
            "Unlimited liability is never acceptable in DPAs.", "critical")

NoConsequential ==
  Forbidden(Pattern("consequential damages", <<"consequential", "damages">>, FALSE, TRUE),
            "Consequential damages must stay excluded.", "medium")

LiabilityRules ==
  [allows_consequential_damages : BOOLEAN, allows_unlimited_liability : BOOLEAN]

DataProtectionRules ==
  { [requires_gdpr_compliance |-> FALSE, requires_breach_notification |-> FALSE,
     max_breach_notification_hours |-> 72],
    [requires_gdpr_compliance |-> TRUE, requires_breach_notification |-> FALSE,
     max_breach_notification_hours |-> 72],
    [requires_gdpr_compliance |-> FALSE, requires_breach_notification |-> TRUE,
     max_breach_notification_hours |-> 24],
    [requires_gdpr_compliance |-> TRUE, requires_breach_notification |-> TRUE,
     max_breach_notification_hours |-> 36] }

DirectProfiles ==
  { [contract_type |-> "Data Processing Agreement",
     governing_jurisdiction |-> "European Union",
     liability |-> l,
     data_protection |-> dp,
     forbidden_clauses |-> f,
     required_source_ids |-> r,
     max_clause_length |-> m] :
      l \in LiabilityRules, dp \in DataProtectionRules,
      f \in { <<>>, <<NoUnlimited>>, <<NoUnlimited, NoConsequential>>,
              <<NoConsequential, NoUnlimited>> },
      r \in { <<>>, <<"DPA-7.1">>, <<"DPA-7.1", "DPA-9.1">> },
      m \in {2, 4} }

(***************************************************************************)
(* The documents _parse_citations is called with directly.                 *)
(***************************************************************************)
Lines ==
  { H(1, "Title"), H(2, "Section"), H(3, "Sub"), A("X-1"), A("X-2"),
    T("alpha", 10), T("beta", 12), HR, Blank }

DirectDocuments == UNION { [1..n -> Lines] : n \in 0..MaxDocLines }

(***************************************************************************)
(* The documents _chunk_document is called with directly: paragraphs of    *)
(* 399, 400 and 801 characters, separated by single blank lines.           *)
(***************************************************************************)
ChunkLines ==
  { H(2, "Section"), A("X-1"), T("short", 399), T("half", 400), T("long", 801), Blank }

\* a blank line stands between two paragraphs of one section
WellSpaced(content) ==
  \A i \in 1..Len(content) :
    content[i].kind = "blank" =>
      /\ 1 < i /\ i < Len(content)
      /\ content[i - 1].kind \notin {"blank", "heading"}
      /\ content[i + 1].kind \notin {"blank", "heading"}

ChunkDocuments ==
  { content \in UNION { [1..n -> ChunkLines] : n \in 1..MaxChunkLines } : WellSpaced(content) }

(***************************************************************************)
(* The file system the store reads: for each directory, whether it exists  *)
(* and the files it holds.                                                 *)
(***************************************************************************)
Missing == [exists |-> FALSE, files |-> {}]
Dir(files) == [exists |-> TRUE, files |-> files]

DirStates ==
  { Missing, Dir({}), Dir({"notes.txt"}), Dir({"legora_dpa.md", "notes.txt"}), Dir(FileNames) }

FsChoices == { f \in [Dirs -> DirStates] : f[AltDir] \in {Missing, Dir(FileNames)} }

(***************************************************************************)
(* State.                                                                  *)
(***************************************************************************)
VARIABLES
  fs,                 \* the directories on disk
  citation_index,     \* ingestion._citation_index
  document_metadata,  \* ingestion._document_metadata
  document_chunks,    \* ingestion._document_chunks
  is_loaded,          \* ingestion._is_loaded
  ld,                 \* per thread: the frame of its call into the store
  ncalls,             \* per thread: store calls made so far
  max_retries,        \* settings.MAX_VALIDATION_RETRIES
  run,                \* per thread: the frame of its run_agent_sync call
  stream,             \* per thread: the frame of its run_agent_streaming generator
  direct,             \* the frame of a direct call of validate_output or _parse_citations
  clock,              \* datetime.now(timezone.utc), in minutes
  tokens,             \* the tokens the auth endpoints have handed out
  refreshed,          \* the refresh tokens /auth/refresh has exchanged, in order
  replies             \* the status of each answer of the auth endpoints, in order

storeVars == <<citation_index, document_metadata, document_chunks, is_loaded>>

authVars == <<clock, tokens, refreshed, replies>>

\* the locals of run_agent_sync; an Optional is <<>> (None) or <<value>>
IdleRun ==
  [pc |-> "idle", user_prompt |-> "", constraints |-> <<>>, events |-> <<>>,
   source_context |-> <<>>, attempt |-> 0, current_prompt |-> <<>>,
   output |-> <<>>, last_output |-> <<>>, last_validation |-> <<>>,
   result |-> <<>>,
   context_error |-> <<>>,  \* the exception caught around _get_relevant_context
   gateway_calls |-> 0,   \* calls of generate_structured_output made by the run
   sent |-> <<>>,         \* the (system prompt, user prompt) of each call
   outcomes |-> <<>>,     \* what each call returned or raised
   validated |-> <<>>]    \* the (attempt, output) of each call of validate_output

IdleFrame ==
  [pc |-> "idle", caller |-> "none", dir |-> None, md_files |-> <<>>, idx |-> 0, ret |-> "none"]

\* the generator of run_agent_streaming: where it is and what it has yielded
IdleStream == [pc |-> "idle", yielded |-> <<>>]

\* no direct call is in progress
NoCall == [fn |-> "none"]

\* no request has reached the auth endpoints
NoTokens ==
  /\ clock = 0
  /\ tokens = {}
  /\ refreshed = <<>>
  /\ replies = <<>>

InitCommon ==
  /\ fs \in FsChoices
  /\ citation_index = EmptyDict
  /\ document_metadata = <<>>
  /\ document_chunks = <<>>
  /\ is_loaded = FALSE
  /\ ld = [t \in Threads |-> IdleFrame]
  /\ ncalls = [t \in Threads |-> 0]
  /\ run = [t \in Threads |-> IdleRun]
  /\ stream = [t \in Threads |-> IdleStream]
  /\ direct = NoCall
  /\ NoTokens

\* the frame after the call returned (ret = "ok") or raised (ret = the exception)
Returned(frame, ret) == [frame EXCEPT !.pc = "returned", !.ret = ret]

(***************************************************************************)
(* ingestion.load_documents, one action per step of one thread.            *)
(***************************************************************************)
\* a caller (main.lifespan, or any other) calls load_documents(source_dir)
CallLoad(t, source_dir) ==
  /\ ld[t].pc = "idle"
  /\ ncalls[t] < MaxCalls
  /\ ld' = [ld EXCEPT ![t] = [IdleFrame EXCEPT !.pc = "check", !.caller = "direct", !.dir = source_dir]]
  /\ ncalls' = [ncalls EXCEPT ![t] = @ + 1]
  /\ UNCHANGED <<fs, storeVars, max_retries, run, stream, direct, authVars>>

\* mutant: load_documents without the _is_loaded guard
LoadCheckNoGuard(t) ==
  /\ ld[t].pc = "check"
  /\ ld' = [ld EXCEPT ![t].pc = "scan"]
  /\ UNCHANGED <<fs, storeVars, ncalls, max_retries, run, stream, direct, authVars>>

\* if _is_loaded: return
LoadCheck(t) ==
  /\ ld[t].pc = "check"
  /\ ld' = [ld EXCEPT ![t] = IF is_loaded THEN Returned(@, "ok") ELSE [@ EXCEPT !.pc = "scan"]]
  /\ UNCHANGED <<fs, storeVars, ncalls, max_retries, run, stream, direct, authVars>>

\* mutant: a directory without Markdown files is loaded as an empty corpus
LoadScanEmptyTolerated(t) ==
  /\ ld[t].pc = "scan"
  /\ LET doc_dir == fs[IF ld[t].dir = None THEN DefaultDir ELSE ld[t].dir]
         md_files == SortedMd(doc_dir.files)
     IN ld' = [ld EXCEPT ![t] =
                 IF ~doc_dir.exists
                 THEN Returned(@, "FileNotFoundError")
                 ELSE IF md_files = <<>>
                      THEN [@ EXCEPT !.pc = "finish"]
                      ELSE [@ EXCEPT !.pc = "read", !.md_files = md_files, !.idx = 1]]
  /\ UNCHANGED <<fs, storeVars, ncalls, max_retries, run, stream, direct, authVars>>

\* doc_dir = Path(source_dir or settings.SOURCE_DOCUMENTS_DIR); exists(); glob
LoadScan(t) ==
  /\ ld[t].pc = "scan"
  /\ LET doc_dir == fs[IF ld[t].dir = None THEN DefaultDir ELSE ld[t].dir]
         md_files == SortedMd(doc_dir.files)
     IN ld' = [ld EXCEPT ![t] =
                 IF ~doc_dir.exists \/ md_files = <<>>
                 THEN Returned(@, "FileNotFoundError")
                 ELSE [@ EXCEPT !.pc = "read", !.md_files = md_files, !.idx = 1]]
  /\ UNCHANGED <<fs, storeVars, ncalls, max_retries, run, stream, direct, authVars>>

\* content = md_file.read_text(encoding="utf-8")
LoadRead(t) ==
  /\ ld[t].pc = "read"
  /\ ld' = [ld EXCEPT ![t].pc = "cite"]
  /\ UNCHANGED <<fs, storeVars, ncalls, max_retries, run, stream, direct, authVars>>

\* the text of the exception read_text raises for a file
ReadError(file) == "ReadError " \o file

\* read_text raises (I/O error, or bytes that are not UTF-8)
LoadReadFail(t) ==
  /\ ld[t].pc = "read"
  /\ ld' = [ld EXCEPT ![t] = Returned(@, ReadError(@.md_files[@.idx]))]
  /\ UNCHANGED <<fs, storeVars, ncalls, max_retries, run, stream, direct, authVars>>

CurFile(t) == ld[t].md_files[ld[t].idx]

\* _citation_index.update(_parse_citations(content, doc_name))
LoadCite(t) ==
  /\ ld[t].pc = "cite"
  /\ citation_index' = DictUpdate(citation_index,
                                  ParseCitations(FileContent(CurFile(t)), Stem(CurFile(t))))
  /\ ld' = [ld EXCEPT ![t].pc = "chunk"]
  /\ UNCHANGED <<fs, document_metadata, document_chunks, is_loaded, ncalls, max_retries, run, stream, direct, authVars>>

\* _chunk_document(content, doc_name) of each source file
FileChunks == [name \in FileNames |-> ChunkDocument(FileContent(name), Stem(name))]

\* _document_chunks.extend(_chunk_document(content, doc_name))
LoadChunk(t) ==
  /\ ld[t].pc = "chunk"
  /\ document_chunks' = document_chunks \o FileChunks[CurFile(t)]
  /\ ld' = [ld EXCEPT ![t].pc = "meta"]
  /\ UNCHANGED <<fs, citation_index, document_metadata, is_loaded, ncalls, max_retries, run, stream, direct, authVars>>

\* _document_metadata.append(DocumentMetadata(...)); next file
LoadMeta(t) ==
  /\ ld[t].pc = "meta"
  /\ LET content == FileContent(CurFile(t))
     IN document_metadata' = Append(document_metadata,
          [filename |-> CurFile(t),
           title |-> ExtractTitle(content),
           total_citations |-> Cardinality(DOMAIN ParseCitations(content, Stem(CurFile(t)))),
           sections |-> ExtractSections(content)])
  /\ ld' = [ld EXCEPT ![t] = IF @.idx < Len(@.md_files)
                             THEN [@ EXCEPT !.pc = "read", !.idx = @ + 1]
                             ELSE [@ EXCEPT !.pc = "finish"]]
  /\ UNCHANGED <<fs, citation_index, document_chunks, is_loaded, ncalls, max_retries, run, stream, direct, authVars>>

\* _is_loaded = True
LoadFinish(t) ==
  /\ ld[t].pc = "finish"
  /\ is_loaded' = TRUE
  /\ ld' = [ld EXCEPT ![t] = Returned(@, "ok")]
  /\ UNCHANGED <<fs, citation_index, document_metadata, document_chunks, ncalls, max_retries, run, stream, direct, authVars>>

(***************************************************************************)
(* The accessors (get_citation_index, get_citation, get_document_metadata, *)
(* get_all_chunks) and _ensure_loaded.                                     *)
(***************************************************************************)
CallAccessor(t) ==
  /\ ld[t].pc = "idle"
  /\ ncalls[t] < MaxCalls
  /\ ld' = [ld EXCEPT ![t] = [IdleFrame EXCEPT !.pc = "ensure", !.caller = "accessor"]]
  /\ ncalls' = [ncalls EXCEPT ![t] = @ + 1]
  /\ UNCHANGED <<fs, storeVars, max_retries, run, stream, direct, authVars>>

\* if not _is_loaded: load_documents()
EnsureLoaded(t) ==
  /\ ld[t].pc = "ensure"
  /\ ld' = [ld EXCEPT ![t] = IF is_loaded THEN Returned(@, "ok") ELSE [@ EXCEPT !.pc = "check"]]
  /\ UNCHANGED <<fs, storeVars, ncalls, max_retries, run, stream, direct, authVars>>

\* the call made by CallLoad or CallAccessor returns or raises to its caller
CallReturn(t) ==
  /\ ld[t].pc = "returned"
  /\ ld[t].caller \in {"direct", "accessor"}
  /\ ld' = [ld EXCEPT ![t] = [IdleFrame EXCEPT !.ret = ld[t].ret]]
  /\ UNCHANGED <<fs, storeVars, ncalls, max_retries, run, stream, direct, authVars>>

LoadStep(t) ==
  \/ LoadCheck(t)
  \/ LoadScan(t)
  \/ LoadRead(t)
  \/ LoadReadFail(t)
  \/ LoadCite(t)
  \/ LoadChunk(t)
  \/ LoadMeta(t)
  \/ LoadFinish(t)
  \/ EnsureLoaded(t)
  \/ CallReturn(t)

\* the steps of the store call a run makes through get_all_chunks
RetrieveStep(t) ==
  \/ EnsureLoaded(t)
  \/ LoadCheck(t)
  \/ LoadScan(t)
  \/ LoadRead(t)
  \/ LoadReadFail(t)
  \/ LoadCite(t)
  \/ LoadChunk(t)
  \/ LoadMeta(t)
  \/ LoadFinish(t)

(***************************************************************************)
(* services/agent.py: run_agent_sync, one action per step of one run.      *)
(***************************************************************************)
DefaultRetries == 3
FallbackChunks == 20
ContextChunks == 15

UserPrompts == {"draft a clause"}

\* the texts of the ValueError raised by generate_structured_output
FormatErrors == {"LLM returned invalid JSON", "LLM output failed schema validation"}

\* the values of the enum Jurisdiction
JurisdictionValues ==
  {"Sweden", "European Union", "United Kingdom", "California, USA", "Delaware, USA", "New York, USA"}

\* str.strip() of a text: the white space at both ends goes
RECURSIVE Strip(_)
Strip(text) ==
  IF text = <<>> THEN <<>>
  ELSE IF Head(text) = " " THEN Strip(Tail(text))
  ELSE IF text[Len(text)] = " " THEN Strip(SubSeq(text, 1, Len(text) - 1))
  ELSE text

\* what the provider answers: text that is no JSON, or a JSON object;
\* confidence_score is counted in hundredths
NotJson == [json |-> FALSE]
Json(clauses, jurisdiction, confidence) ==
  [json |-> TRUE, clauses |-> clauses, governing_jurisdiction |-> jurisdiction,
   confidence_score |-> confidence]
JsonOf(o) == Json(o.clauses, o.governing_jurisdiction, o.confidence_score)

Responses ==
  { JsonOf(o) : o \in Outputs } \cup
  { NotJson,
    Json(<< Clause("Security", <<" ", "GDPR", "breach", "notification", " ">>, <<"DPA-7.1">>) >>,
         "European Union", 90),
    Json(<<>>, "European Union", 90),
    Json(<< Clause("Security", <<>>, <<>>) >>, "European Union", 90),
    Json(<< Clause("Security", <<" ", " ">>, <<>>) >>, "European Union", 90),
    Json(GoodOutput.clauses, "European Union", 150),
    Json(GoodOutput.clauses, "European Union", 0 - 10),
    Json(GoodOutput.clauses, "Mars", 90) }

\* mutant: the response is parsed but not validated against the model
ModelValidateNoChecks(data) == TRUE

\* AgentOutput.model_validate(data) does not raise: min_length=1, text_not_empty,
\* the enum of the jurisdiction, ge=0.0 and le=1.0
ModelValidate(data) ==
  /\ Len(data.clauses) >= 1
  /\ \A k \in 1..Len(data.clauses) : Strip(data.clauses[k].text) # <<>>
  /\ data.governing_jurisdiction \in JurisdictionValues
  /\ data.confidence_score >= 0
  /\ data.confidence_score <= 100

\* generate_structured_output past the provider call: json.loads, model_validate;
\* the clause texts of the output are the stripped ones
GenerateStructuredOutput(raw) ==
  IF ~raw.json
  THEN [kind |-> "format_error", output |-> <<>>, error |-> "LLM returned invalid JSON"]
  ELSE IF ~ModelValidate(raw)
  THEN [kind |-> "format_error", output |-> <<>>, error |-> "LLM output failed schema validation"]
  ELSE [kind |-> "output", error |-> "",
        output |-> << [clauses |-> [k \in 1..Len(raw.clauses) |->
                                     [raw.clauses[k] EXCEPT !.text = Strip(@)]],
                       governing_jurisdiction |-> raw.governing_jurisdiction,
                       confidence_score |-> raw.confidence_score] >>]

\* AgentEvent; timestamp is time.time() at construction, kept as a logical
\* clock: the number of events the run has constructed so far
Event(state, message, data, timestamp) ==
  [state |-> state, message |-> message, data |-> data, timestamp |-> timestamp]

\* mutant: the event is put in front of the list
EmitAtFront(events, state, message, data) ==
  << Event(state, message, data, Len(events) + 1) >> \o events

Emit(events, state, message, data) == Append(events, Event(state, message, data, Len(events) + 1))

AgentResult(output, validation, events, total_attempts, success, error_message) ==
  [output |-> output, validation |-> validation, events |-> events,
   total_attempts |-> total_attempts, success |-> success, error_message |-> error_message]

FirstN(seq, n) == SubSeq(seq, 1, IF Len(seq) < n THEN Len(seq) ELSE n)

TypeToPrefix(contract_type) ==
  CASE contract_type = "Data Processing Agreement" -> "legora_dpa"
    [] contract_type = "Privacy Policy" -> "legora_privacy"
    [] contract_type = "Master Services Agreement" -> "zegal_msa"
    [] contract_type = "Non-Disclosure Agreement" -> "legora_dpa"
    [] contract_type = "Service Level Agreement" -> "zegal_msa"
    [] OTHER -> ""

\* the matching chunks are topped up with the first chunks of the store
GetRelevantContextPadded(chunks, constraints) ==
  LET target_prefix == TypeToPrefix(constraints.contract_type)
      matching == SelectSeq(chunks, LAMBDA c : c.document_name = target_prefix)
      used == FirstN(matching \o FirstN(chunks, FallbackChunks), ContextChunks)
  IN [k \in 1..Len(used) |->
        [sources |-> IF used[k].source_ids = <<>> THEN <<"N/A">> ELSE used[k].source_ids,
         chunk_id |-> used[k].chunk_id,
         text |-> used[k].text]]

\* _get_relevant_context, given the chunks get_all_chunks returned
GetRelevantContext(chunks, constraints) ==
  LET target_prefix == TypeToPrefix(constraints.contract_type)
      matching == SelectSeq(chunks, LAMBDA c : c.document_name = target_prefix)
      relevant == IF matching = <<>> THEN FirstN(chunks, FallbackChunks) ELSE matching
      used == FirstN(relevant, ContextChunks)
  IN [k \in 1..Len(used) |->
        [sources |-> IF used[k].source_ids = <<>> THEN <<"N/A">> ELSE used[k].source_ids,
         chunk_id |-> used[k].chunk_id,
         text |-> used[k].text]]

BuildSystemPrompt(constraints, source_context) ==
  [constraints |-> constraints, source_context |-> source_context]

\* _build_retry_context: a summary line per violation, a fix line per suggestion
BuildRetryContext(violations) ==
  LET withFix == SelectSeq(violations, LAMBDA v : v.suggestion # <<>>)
  IN [kind |-> "retry",
      summary |-> [k \in 1..Len(violations) |->
                     <<violations[k].severity, violations[k].field, violations[k].message>>],
      fixes |-> IF withFix = <<>> THEN << <<"Review and correct the violations.">> >>
                ELSE [k \in 1..Len(withFix) |-> withFix[k].suggestion]]

UserPart(user_prompt) == [kind |-> "user", text |-> user_prompt]
FailureNote(e) == [kind |-> "failure", text |-> e]

\* mutant: a retry is always granted
AttemptsRemainAlways(attempt, n) == TRUE

\* mutant: the comparison off by one
AttemptsRemainOffByOne(attempt, n) == attempt <= n

\* attempt < max_retries
AttemptsRemain(attempt, n) == attempt < n

\* mutant: the failed retrieval is charged as an attempt
ContextFailureResultCharged(events, e) ==
  AgentResult(<<>>, ValidationResult(FALSE, <<>>), events, 1, FALSE, <<e>>)

\* the result returned when context retrieval raised e
ContextFailureResult(events, e) ==
  AgentResult(<<>>, ValidationResult(FALSE, <<>>), events, 0, FALSE, <<e>>)

\* mutant: the call that raised is not counted
FinalErrorResultUncounted(last_output, last_validation, events, attempt, e) ==
  AgentResult(<<>>, ValidationResult(FALSE, <<>>), events, attempt - 1, FALSE, <<e>>)

\* mutant: the error of the gateway is not passed on
FinalErrorResultNoMessage(last_output, last_validation, events, attempt, e) ==
  AgentResult(<<>>, ValidationResult(FALSE, <<>>), events, attempt, FALSE, <<>>)

\* the result returned when the gateway raised ValueError e on the last attempt
FinalErrorResult(last_output, last_validation, events, attempt, e) ==
  AgentResult(<<>>, ValidationResult(FALSE, <<>>), events, attempt, FALSE, <<e>>)

\* mutant: the exhausted result forgets the last validation
ExhaustedResultNoValidation(last_output, last_validation, events, n) ==
  AgentResult(last_output, ValidationResult(FALSE, <<>>),
              events, n, FALSE, << <<"Validation failed after attempts", n>> >>)

\* the result returned after the loop
ExhaustedResult(last_output, last_validation, events, n) ==
  AgentResult(last_output,
              IF last_validation # <<>> THEN last_validation[1] ELSE ValidationResult(FALSE, <<>>),
              events, n, FALSE, << <<"Validation failed after attempts", n>> >>)

\* mutant: the verified output is returned without the success flag
SuccessResultNotFlagged(output, validation, events, attempt) ==
  AgentResult(<<output>>, validation, events, attempt, FALSE, <<>>)

\* the result returned when the output of an attempt passes validation
SuccessResult(output, validation, events, attempt) ==
  AgentResult(<<output>>, validation, events, attempt, TRUE, <<>>)

\* run_agent_sync is called; it emits INITIALIZING and RETRIEVING and asks the store
RunStart(t, user_prompt, constraints) ==
  /\ run[t].pc = "idle"
  /\ ld[t].pc = "idle"
  /\ run' = [run EXCEPT ![t] =
       [IdleRun EXCEPT !.pc = "retrieve", !.user_prompt = user_prompt,
                       !.constraints = <<constraints>>,
                       !.events = << Event("INITIALIZING", <<"Starting legal analysis agent...">>, <<>>, 1),
                                     Event("RETRIEVING", <<"Retrieving relevant source documents...">>, <<>>, 2) >>]]
  /\ ld' = [ld EXCEPT ![t] = [IdleFrame EXCEPT !.pc = "ensure", !.caller = "run"]]
  /\ UNCHANGED <<fs, storeVars, ncalls, max_retries, stream, direct, authVars>>

\* get_all_chunks returned: the context is built and the loop is entered
RunRetrieved(t) ==
  /\ run[t].pc = "retrieve"
  /\ ld[t].pc = "returned" /\ ld[t].caller = "run" /\ ld[t].ret = "ok"
  /\ LET r == run[t]
         source_context == GetRelevantContext(document_chunks, r.constraints[1])
         events == Emit(r.events, "RETRIEVING", <<"Retrieved context for", r.constraints[1].contract_type>>,
                        << [context_length |-> Len(source_context)] >>)
     IN run' = [run EXCEPT ![t] =
          IF 1 <= max_retries
          THEN [r EXCEPT !.pc = "draft", !.source_context = source_context, !.events = events,
                         !.current_prompt = << UserPart(r.user_prompt) >>, !.attempt = 1]
          ELSE [r EXCEPT !.pc = "done", !.source_context = source_context, !.events = events,
                         !.current_prompt = << UserPart(r.user_prompt) >>,
                         !.result = << ExhaustedResult(<<>>, <<>>, events, max_retries) >>]]
  /\ ld' = [ld EXCEPT ![t] = IdleFrame]
  /\ UNCHANGED <<fs, storeVars, ncalls, max_retries, stream, direct, authVars>>

\* get_all_chunks raised: except Exception
RunRetrieveFailed(t) ==
  /\ run[t].pc = "retrieve"
  /\ ld[t].pc = "returned" /\ ld[t].caller = "run" /\ ld[t].ret # "ok"
  /\ LET r == run[t]
         events == Emit(r.events, "ERROR", <<"Failed to retrieve context", ld[t].ret>>, <<>>)
     IN run' = [run EXCEPT ![t] =
          [r EXCEPT !.pc = "done", !.events = events, !.context_error = << ld[t].ret >>,
                    !.result = << ContextFailureResult(events, ld[t].ret) >>]]
  /\ ld' = [ld EXCEPT ![t] = IdleFrame]
  /\ UNCHANGED <<fs, storeVars, ncalls, max_retries, stream, direct, authVars>>

\* emit DRAFTING and call generate_structured_output(system_prompt, current_prompt)
Draft(t) ==
  /\ run[t].pc = "draft"
  /\ LET r == run[t] IN
     run' = [run EXCEPT ![t] =
       [r EXCEPT !.pc = "gateway",
                 !.events = Emit(r.events, "DRAFTING", <<"Generating draft", r.attempt, max_retries>>,
                                 << [attempt |-> r.attempt] >>),
                 !.gateway_calls = @ + 1,
                 !.sent = Append(@, [system_prompt |-> BuildSystemPrompt(r.constraints[1], r.source_context),
                                     user_prompt |-> r.current_prompt])]]
  /\ UNCHANGED <<fs, storeVars, ld, ncalls, max_retries, stream, direct, authVars>>

\* the gateway returns a schema-valid output
GatewayReturn(t, o) ==
  /\ run[t].pc = "gateway"
  /\ LET r == run[t] IN
     run' = [run EXCEPT ![t] =
       [r EXCEPT !.pc = "validate", !.output = <<o>>, !.last_output = <<o>>,
                 !.events = Emit(r.events, "DRAFTING", <<"Draft generated">>,
                                 << [clauses_count |-> Len(o.clauses),
                                     confidence |-> o.confidence_score] >>),
                 !.outcomes = Append(@, [kind |-> "output", output |-> <<o>>, error |-> ""])]]
  /\ UNCHANGED <<fs, storeVars, ld, ncalls, max_retries, stream, direct, authVars>>

\* the gateway raises ValueError(e): except ValueError
GatewayValueError(t, e) ==
  /\ run[t].pc = "gateway"
  /\ LET r == run[t]
         events == Emit(r.events, "ERROR", <<"LLM output error", e>>, <<>>)
         outcomes == Append(r.outcomes, [kind |-> "format_error", output |-> <<>>, error |-> e])
     IN run' = [run EXCEPT ![t] =
          IF AttemptsRemain(r.attempt, max_retries)
          THEN [r EXCEPT !.pc = "draft", !.events = events, !.outcomes = outcomes,
                         !.current_prompt = << UserPart(r.user_prompt), FailureNote(e) >>,
                         !.attempt = @ + 1]
          ELSE [r EXCEPT !.pc = "done", !.events = events, !.outcomes = outcomes,
                         !.result = << FinalErrorResult(r.last_output, r.last_validation,
                                                        events, r.attempt, e) >>]]
  /\ UNCHANGED <<fs, storeVars, ld, ncalls, max_retries, stream, direct, authVars>>

\* the gateway raises anything else (the provider call failed): nothing catches it
GatewayRaises(t) ==
  /\ run[t].pc = "gateway"
  /\ run' = [run EXCEPT ![t].pc = "raised",
                        ![t].outcomes = Append(@, [kind |-> "exception", output |-> <<>>,
                                                   error |-> "provider call failed"])]
  /\ UNCHANGED <<fs, storeVars, ld, ncalls, max_retries, stream, direct, authVars>>

\* emit VALIDATING, validate_output, and the rest of the loop body
Validate(t) ==
  /\ run[t].pc = "validate"
  /\ LET r == run[t]
         constraints == r.constraints[1]
         output == r.output[1]
         ev1 == Emit(r.events, "VALIDATING", <<"Running constraint validation...">>, <<>>)
         called == [attempt |-> r.attempt, output |-> output]
     IN
     IF ForbiddenClausesRaise(constraints)
     THEN run' = [run EXCEPT ![t] = [r EXCEPT !.pc = "raised", !.events = ev1,
                                                !.validated = Append(@, called)]]
     ELSE
       \E validation \in { [ValidateOutput(output, constraints) EXCEPT !.attempt_number = r.attempt] } :
       IF validation.is_valid
       THEN LET ev2 == Emit(Emit(ev1, "FINALIZING", <<"All constraints satisfied!">>,
                                 << [attempt |-> r.attempt] >>),
                            "COMPLETE", <<"Agent loop complete">>, <<>>)
            IN run' = [run EXCEPT ![t] =
                 [r EXCEPT !.pc = "done", !.events = ev2, !.last_validation = <<validation>>,
                           !.validated = Append(@, called),
                           !.result = << SuccessResult(output, validation, ev2, r.attempt) >>]]
       ELSE LET ev2 == Emit(ev1, "VIOLATION_FOUND", <<"violation(s) found", Len(validation.violations)>>,
                            << [violations |-> [k \in 1..Len(validation.violations) |->
                                  [field |-> validation.violations[k].field,
                                   message |-> validation.violations[k].message,
                                   severity |-> validation.violations[k].severity]]] >>)
            IN
            IF AttemptsRemain(r.attempt, max_retries)
            THEN run' = [run EXCEPT ![t] =
                   [r EXCEPT !.pc = "draft", !.last_validation = <<validation>>,
                             !.validated = Append(@, called),
                             !.events = Emit(ev2, "CORRECTING", <<"Injecting corrections for retry", r.attempt + 1>>, <<>>),
                             !.current_prompt = << UserPart(r.user_prompt),
                                                   BuildRetryContext(validation.violations) >>,
                             !.attempt = @ + 1]]
            ELSE LET ev3 == Emit(ev2, "ERROR", <<"Max retries exhausted", max_retries>>, <<>>)
                 IN run' = [run EXCEPT ![t] =
                      [r EXCEPT !.pc = "done", !.last_validation = <<validation>>, !.events = ev3,
                                !.validated = Append(@, called),
                                !.result = << ExhaustedResult(r.last_output, <<validation>>,
                                                              ev3, max_retries) >>]]
  /\ UNCHANGED <<fs, storeVars, ld, ncalls, max_retries, stream, direct, authVars>>

\* generate_structured_output returns the output or raises the ValueError
Gateway(t, raw) ==
  LET g == GenerateStructuredOutput(raw) IN
  \/ g.kind = "output" /\ GatewayReturn(t, g.output[1])
  \/ g.kind = "format_error" /\ GatewayValueError(t, g.error)

RunStep(t) ==
  \/ RunRetrieved(t)
  \/ RunRetrieveFailed(t)
  \/ Draft(t)
  \/ \E raw \in Responses : Gateway(t, raw)
  \/ GatewayRaises(t)
  \/ Validate(t)

(***************************************************************************)
(* validator.validate_output called directly.                              *)
(***************************************************************************)
\* the frame of validate_output(output, constraints) before its first statement
ValidateFrame(output, constraints) ==
  [fn |-> "validate_output", pc |-> "called", output |-> output, constraints |-> constraints,
   result |-> <<>>]

\* validate_output runs the checks and returns the result
ValidateReturn ==
  /\ direct.fn = "validate_output"
  /\ direct.pc = "called"
  /\ direct' = [direct EXCEPT !.pc = "returned",
                              !.result = << ValidateOutput(direct.output, direct.constraints) >>]
  /\ UNCHANGED <<fs, storeVars, ld, ncalls, max_retries, run, stream, authVars>>

(***************************************************************************)
(* ingestion._parse_citations called directly.                             *)
(***************************************************************************)
ParseFrame(content, document_name) ==
  [fn |-> "_parse_citations", pc |-> "called", content |-> content,
   document_name |-> document_name, result |-> <<>>]

\* _parse_citations scans the anchors and returns the citations it recorded
ParseReturn ==
  /\ direct.fn = "_parse_citations"
  /\ direct.pc = "called"
  /\ direct' = [direct EXCEPT !.pc = "returned",
                              !.result = << ParseCitations(direct.content, direct.document_name) >>]
  /\ UNCHANGED <<fs, storeVars, ld, ncalls, max_retries, run, stream, authVars>>

(***************************************************************************)
(* ingestion._chunk_document called directly.                              *)
(***************************************************************************)
ChunkFrame(content, document_name) ==
  [fn |-> "_chunk_document", pc |-> "called", content |-> content,
   document_name |-> document_name, result |-> <<>>]

\* _chunk_document splits the sections and returns the chunks
ChunkReturn ==
  /\ direct.fn = "_chunk_document"
  /\ direct.pc = "called"
  /\ direct' = [direct EXCEPT !.pc = "returned",
                              !.result = << ChunkDocument(direct.content, direct.document_name) >>]
  /\ UNCHANGED <<fs, storeVars, ld, ncalls, max_retries, run, stream, authVars>>

(***************************************************************************)
(* agent._get_relevant_context called directly on a loaded store.          *)
(***************************************************************************)
\* the k-th chunk of a document; every second chunk holds no anchor
StoreChunk(document_name, k) ==
  MkChunk(document_name, k, -1, << T("body", 100) >>,
          IF k % 2 = 1 THEN << "S-1" >> ELSE <<>>)

\* a store holding a chunks of legora_dpa followed by b chunks of zegal_msa
StoreChunks(a, b) ==
  [k \in 1..(a + b) |->
     IF k <= a THEN StoreChunk("legora_dpa", k - 1) ELSE StoreChunk("zegal_msa", k - a - 1)]

ContractTypes ==
  { "Data Processing Agreement", "Privacy Policy", "Master Services Agreement",
    "Non-Disclosure Agreement", "Service Level Agreement" }

\* the frame of _get_relevant_context(constraints) once get_all_chunks returned chunks
ContextFrame(chunks, constraints) ==
  [fn |-> "_get_relevant_context", pc |-> "called", chunks |-> chunks,
   constraints |-> constraints, result |-> <<>>]

\* _get_relevant_context selects the chunks and returns the context
ContextReturn ==
  /\ direct.fn = "_get_relevant_context"
  /\ direct.pc = "called"
  /\ direct' = [direct EXCEPT !.pc = "returned",
                              !.result = << GetRelevantContext(direct.chunks, direct.constraints) >>]
  /\ UNCHANGED <<fs, storeVars, ld, ncalls, max_retries, run, stream, authVars>>

(***************************************************************************)
(* agent.run_agent_streaming: the run is handed to the executor and        *)
(* awaited, its recorded events are replayed, one synthetic event ends the *)
(* stream.                                                                 *)
(***************************************************************************)
GenericError == "An error occurred during processing"

\* BaseModel.model_dump(): the dict of the model's fields
ModelDump(model) == [dict |-> model]

\* the event yielded for a recorded event
Redact(event) ==
  IF event.state = "ERROR"
  THEN Event("ERROR", <<GenericError>>, <<>>, event.timestamp)
  ELSE event

\* a final event that also carries the result's error message
FinalEventWithError(result, now) ==
  IF result.success /\ result.output # <<>>
  THEN Event("COMPLETE", <<"Generation complete">>,
             << [output |-> ModelDump(result.output[1]),
                 validation |-> ModelDump(result.validation),
                 total_attempts |-> result.total_attempts] >>, now)
  ELSE Event("ERROR", <<"Generation could not be completed">>,
             << [validation |-> ModelDump(result.validation),
                 total_attempts |-> result.total_attempts,
                 error |-> result.error_message] >>, now)

\* the synthetic event built from the result at time now
FinalEvent(result, now) ==
  IF result.success /\ result.output # <<>>
  THEN Event("COMPLETE", <<"Generation complete">>,
             << [output |-> ModelDump(result.output[1]),
                 validation |-> ModelDump(result.validation),
                 total_attempts |-> result.total_attempts] >>, now)
  ELSE Event("ERROR", <<"Generation could not be completed">>,
             \* result.validation is a model instance on every return path
             << [validation |-> ModelDump(result.validation),
                 total_attempts |-> result.total_attempts] >>, now)

Finished(t) == stream[t].pc \in {"finished", "raised"}

\* run_agent_streaming is called and hands run_agent_sync to the executor;
\* the requests are served one after the other, each repeating the one before
StreamCall(t, user_prompt, constraints) ==
  /\ stream[t].pc = "idle"
  /\ \A u \in Threads : u < t => /\ Finished(u)
                                 /\ run[u].user_prompt = user_prompt
                                 /\ run[u].constraints = <<constraints>>
  /\ RunStart(t, user_prompt, constraints)

\* a generator that yields each event as soon as the run has recorded it
StreamYieldLive(t) ==
  /\ run[t].pc \notin {"idle", "raised"}
  /\ stream[t].pc \in {"idle", "replay"}
  /\ Len(stream[t].yielded) < Len(run[t].events)
  /\ stream' = [stream EXCEPT ![t] =
       [pc |-> "replay",
        yielded |-> Append(@.yielded, Redact(run[t].events[Len(@.yielded) + 1]))]]
  /\ UNCHANGED <<fs, storeVars, ld, ncalls, max_retries, run, direct, authVars>>

\* the awaited run returned: the next recorded event is yielded
StreamYield(t) ==
  /\ run[t].pc = "done"
  /\ stream[t].pc \in {"idle", "replay"}
  /\ Len(stream[t].yielded) < Len(run[t].result[1].events)
  /\ stream' = [stream EXCEPT ![t] =
       [pc |-> "replay",
        yielded |-> Append(@.yielded, Redact(run[t].result[1].events[Len(@.yielded) + 1]))]]
  /\ UNCHANGED <<fs, storeVars, ld, ncalls, max_retries, run, direct, authVars>>

\* the replay is over: the synthetic event is yielded and the generator ends
StreamFinal(t) ==
  /\ run[t].pc = "done"
  /\ stream[t].pc \in {"idle", "replay"}
  /\ Len(stream[t].yielded) = Len(run[t].result[1].events)
  /\ stream' = [stream EXCEPT ![t] =
       [pc |-> "finished",
        yielded |-> Append(@.yielded,
                           FinalEvent(run[t].result[1], Len(run[t].result[1].events) + 1))]]
  /\ UNCHANGED <<fs, storeVars, ld, ncalls, max_retries, run, direct, authVars>>

\* the awaited run raised: the exception leaves the generator
StreamRaise(t) ==
  /\ run[t].pc = "raised"
  /\ stream[t].pc = "idle"
  /\ stream' = [stream EXCEPT ![t].pc = "raised"]
  /\ UNCHANGED <<fs, storeVars, ld, ncalls, max_retries, run, direct, authVars>>

StreamStep(t) ==
  \/ StreamYield(t)
  \/ StreamFinal(t)
  \/ StreamRaise(t)

(***************************************************************************)
(* Specifications.                                                         *)
(***************************************************************************)
(***************************************************************************)
(* core/security.py: the storage policy.  A string is the sequence of its  *)
(* characters; the word uploads counts as one character.                   *)
(***************************************************************************)
Uploads == "uploads"

\* the characters user ids and paths are made of
IdChars == {"a", "b", "."}
PathChars == {"a", "b", ".", "/", "\\"}

Strings(chars, n) == UNION { [1..k -> chars] : k \in 0..n }

UserIds == Strings(IdChars, MaxIdLen) \ { <<>> }
FilePaths ==
  { first \o rest : first \in { <<>>, <<Uploads, "/">> }, rest \in Strings(PathChars, MaxPathLen) }

\* the character class [a-zA-Z0-9_\-]
IsSafeIdChar(c) == c \in {"a", "b"}

\* get_user_storage_path(user_id): the path, or ValueError raised
GetUserStoragePath(user_id) ==
  LET safe_id == SelectSeq(user_id, IsSafeIdChar) IN
  IF safe_id = <<>> THEN [raised |-> TRUE, path |-> <<>>]
  ELSE [raised |-> FALSE, path |-> <<Uploads, "/">> \o safe_id]

\* _PATH_TRAVERSAL_PATTERN.search(s): two dots and a separator
HasTraversal(s) ==
  \E i \in 1..(Len(s) - 2) : s[i] = "." /\ s[i + 1] = "." /\ s[i + 2] \in {"/", "\\"}

\* file_path.replace("\\", "/")
Normalized(file_path) ==
  [k \in 1..Len(file_path) |-> IF file_path[k] = "\\" THEN "/" ELSE file_path[k]]

StartsWith(s, prefix) == Len(prefix) <= Len(s) /\ SubSeq(s, 1, Len(prefix)) = prefix

\* validate_file_access(user_id, file_path): "True", "False", or the exception
ValidateFileAccess(user_id, file_path) ==
  LET expected_prefix == GetUserStoragePath(user_id)
      normalized == Normalized(file_path)
  IN
  IF expected_prefix.raised THEN "ValueError"
  ELSE IF HasTraversal(normalized) THEN "False"
  ELSE IF ~StartsWith(normalized, expected_prefix.path) THEN "False"
  ELSE "True"

AccessFrame(user_id, file_path) ==
  [fn |-> "validate_file_access", pc |-> "called", user_id |-> user_id,
   file_path |-> file_path, result |-> <<>>]

AccessReturn ==
  /\ direct.fn = "validate_file_access"
  /\ direct.pc = "called"
  /\ direct' = [direct EXCEPT !.pc = "returned",
                              !.result = << ValidateFileAccess(direct.user_id, direct.file_path) >>]
  /\ UNCHANGED <<fs, storeVars, ld, ncalls, max_retries, run, stream, authVars>>

(***************************************************************************)
(* core/security.py and api/auth.py: the JWT tokens and the two auth       *)
(* endpoints.  A token is its payload and the key it is signed with; time  *)
(* is counted in minutes.                                                  *)
(***************************************************************************)
ApiKey == "api-key"
JwtSecret == "change-me-in-production"
AccessMinutes == 15
RefreshDays == 7
RefreshMinutes == RefreshDays * 24 * 60

\* secrets.token_hex(16): any value may come out
Jtis == {"jti-1", "jti-2"}

\* the time that passes between two requests
Delays == {0, AccessMinutes, RefreshMinutes}

\* create_access_token(data) at time now
CreateAccessToken(sub, at) ==
  [type |-> "access", sub |-> sub, exp |-> at + AccessMinutes, jti |-> None, key |-> JwtSecret]

\* create_refresh_token(data) at time now, with the token id drawn
CreateRefreshToken(sub, at, jti) ==
  [type |-> "refresh", sub |-> sub, exp |-> at + RefreshMinutes, jti |-> jti, key |-> JwtSecret]

\* a token somebody else signed
Forged(token) == [token EXCEPT !.key = "guessed"]

\* verify_token(token, expected_type) at time now: "ok" or the exception raised;
\* jwt.decode checks the signature, then the expiry
VerifyToken(token, expected_type, at) ==
  IF token.key # JwtSecret THEN "InvalidSignatureError"
  ELSE IF token.exp <= at THEN "ExpiredSignatureError"
  ELSE IF token.type # expected_type THEN "ValueError"
  ELSE "ok"

\* POST /auth/token with the credential api_key, delay after the request before
IssueToken(api_key, delay, jti) ==
  /\ Len(replies) < MaxRequests
  /\ clock' = clock + delay
  /\ IF ApiKey = "" \/ api_key # ApiKey
     THEN /\ replies' = Append(replies, 401)
          /\ UNCHANGED <<tokens, refreshed>>
     ELSE /\ tokens' = tokens \cup { CreateAccessToken("api-user", clock'),
                                     CreateRefreshToken("api-user", clock', jti) }
          /\ replies' = Append(replies, 200)
          /\ UNCHANGED refreshed
  /\ UNCHANGED <<fs, storeVars, ld, ncalls, max_retries, run, stream, direct>>

\* POST /auth/refresh with the token presented, delay after the request before
RefreshToken(token, delay, jti) ==
  /\ Len(replies) < MaxRequests
  /\ clock' = clock + delay
  /\ IF VerifyToken(token, "refresh", clock') # "ok"
     THEN /\ replies' = Append(replies, 401)
          /\ UNCHANGED <<tokens, refreshed>>
     ELSE /\ tokens' = tokens \cup { CreateAccessToken(token.sub, clock'),
                                     CreateRefreshToken(token.sub, clock', jti) }
          /\ refreshed' = Append(refreshed, token)
          /\ replies' = Append(replies, 200)
  /\ UNCHANGED <<fs, storeVars, ld, ncalls, max_retries, run, stream, direct>>

\* the tokens a client may present: the ones handed out and forgeries of them
Presentable == tokens \cup { Forged(token) : token \in tokens }

vars == <<fs, citation_index, document_metadata, document_chunks, is_loaded, ld, ncalls, max_retries, run, stream, direct,
          clock, tokens, refreshed, replies>>

\* one run on one thread, after any startup calls of load_documents (main.lifespan)
Init == InitCommon /\ max_retries \in 1..MaxRetries

Next ==
  \E t \in {1} :
    \/ CallLoad(t, None)
    \/ LoadStep(t)
    \/ \E p \in UserPrompts, c \in Profiles : RunStart(t, p, c)
    \/ RunStep(t)

Spec == Init /\ [][Next]_vars

\* one run whose thread keeps running: as long as the thread has a next
\* statement it executes it, and a pending gateway call comes back
SpecLive == Spec /\ WF_vars(LoadStep(1)) /\ WF_vars(RunStep(1))

\* the store alone, called by two threads
InitStore == InitCommon /\ max_retries = DefaultRetries

NextStore ==
  \E t \in Threads :
    \/ \E d \in {None, AltDir} : CallLoad(t, d)
    \/ CallAccessor(t)
    \/ LoadStep(t)

SpecStore == InitStore /\ [][NextStore]_vars

\* two streaming requests, served one after the other
InitStream ==
  /\ InitCommon
  /\ fs[DefaultDir] \in {Missing, Dir(FileNames)}
  /\ fs[AltDir] = Missing
  /\ max_retries \in 1..MaxStreamRetries

NextStream ==
  \E t \in Threads :
    \/ \E p \in UserPrompts, c \in Profiles : StreamCall(t, p, c)
    \/ RetrieveStep(t)
    \/ RunStep(t)
    \/ StreamStep(t)

SpecStream == InitStream /\ [][NextStream]_vars

\* the profiles of the two runs
RunProfiles == {DpaProfile, PrivacyProfile}

\* two runs of run_agent_sync in the threads of the executor
InitRuns ==
  /\ InitCommon
  /\ fs[DefaultDir] \in {Missing, Dir(FileNames)}
  /\ fs[AltDir] = Missing
  /\ max_retries \in 1..MaxRunRetries

NextRuns ==
  \E t \in Threads :
    \/ \E p \in UserPrompts, c \in RunProfiles : RunStart(t, p, c)
    \/ RetrieveStep(t)
    \/ RunStep(t)

SpecRuns == InitRuns /\ [][NextRuns]_vars

\* nothing is running: the store is empty and every thread is idle
Quiet ==
  /\ fs = [d \in Dirs |-> Missing]
  /\ citation_index = EmptyDict
  /\ document_metadata = <<>>
  /\ document_chunks = <<>>
  /\ is_loaded = FALSE
  /\ ld = [t \in Threads |-> IdleFrame]
  /\ ncalls = [t \in Threads |-> 0]
  /\ max_retries = DefaultRetries
  /\ run = [t \in Threads |-> IdleRun]
  /\ stream = [t \in Threads |-> IdleStream]
  /\ NoTokens

\* the auth endpoints alone
InitAuth ==
  /\ Quiet
  /\ direct = NoCall

\* validate_file_access alone, called once with any user id and any path
InitAccess ==
  /\ Quiet
  /\ direct \in { AccessFrame(user_id, file_path) : user_id \in UserIds, file_path \in FilePaths }

NextAccess == AccessReturn

SpecAccess == InitAccess /\ [][NextAccess]_vars

NextAuth ==
  \E delay \in Delays, jti \in Jtis :
    \/ \E api_key \in {ApiKey, "wrong"} : IssueToken(api_key, delay, jti)
    \/ \E token \in Presentable : RefreshToken(token, delay, jti)

SpecAuth == InitAuth /\ [][NextAuth]_vars

\* validate_output alone, called once with any output and any profile
InitValidate ==
  /\ Quiet
  /\ direct \in { ValidateFrame(o, c) : o \in DirectOutputs, c \in DirectProfiles }

NextValidate == ValidateReturn

SpecValidate == InitValidate /\ [][NextValidate]_vars

\* _parse_citations alone, called once with any document
InitParse ==
  /\ Quiet
  /\ direct \in { ParseFrame(content, "doc") : content \in DirectDocuments }

NextParse == ParseReturn

SpecParse == InitParse /\ [][NextParse]_vars

\* _chunk_document alone, called once with any document
InitChunk ==
  /\ Quiet
  /\ direct \in { ChunkFrame(content, "doc") : content \in ChunkDocuments }

NextChunk == ChunkReturn

SpecChunk == InitChunk /\ [][NextChunk]_vars

\* _get_relevant_context alone, called once on any store for any contract type
InitContext ==
  /\ Quiet
  /\ direct \in { ContextFrame(StoreChunks(a, b), [DpaProfile EXCEPT !.contract_type = ct]) :
                    a \in 0..MaxStoreChunks, b \in 0..MaxStoreChunks, ct \in ContractTypes }

NextContext == ContextReturn

SpecContext == InitContext /\ [][NextContext]_vars

(***************************************************************************)
(* Properties.                                                             *)
(***************************************************************************)
Res(t) == run[t].result[1]

Returns(t) == run[t].pc = "done"

StatesOf(events) == [k \in 1..Len(events) |-> events[k].state]

\* the violations the engine computes for the output of the k-th gateway call of t
ViolationsOf(t, k) == AllViolations(run[t].outcomes[k].output[1], run[t].constraints[1])

IsOutput(t, k) == run[t].outcomes[k].kind = "output"

Compiles(t) == ~ForbiddenClausesRaise(run[t].constraints[1])

Passing(t, k) == IsOutput(t, k) /\ Compiles(t) /\ ViolationsOf(t, k) = <<>>

Violating(t, k) == IsOutput(t, k) /\ Compiles(t) /\ ViolationsOf(t, k) # <<>>

Kinds(t) == {run[t].outcomes[k].kind : k \in 1..Len(run[t].outcomes)}

\* C1: a run calls the generation gateway at most max_retries times, whatever
\* mix of format errors and validation failures it meets, and the result it
\* returns has total_attempts <= max_retries.
C1_SharedBudget ==
  \A t \in Threads :
    /\ run[t].gateway_calls <= max_retries
    /\ Len(run[t].outcomes) <= run[t].gateway_calls
    /\ run[t].result # <<>> => Res(t).total_attempts <= max_retries

C1_Witness ==
  \E t \in Threads :
    /\ Returns(t)
    /\ max_retries >= 2
    /\ run[t].gateway_calls = max_retries
    /\ {"output", "format_error"} \subseteq Kinds(t)

\* C2: when every attempt returned a schema-valid output with at least one
\* violation, the run makes exactly max_retries draft/validate cycles and
\* returns success = false, total_attempts = max_retries and the non-empty
\* violation list computed for the output of the last attempt.
C2_AllViolating ==
  \A t \in Threads :
    (Returns(t) /\ run[t].outcomes # <<>>
       /\ \A k \in 1..Len(run[t].outcomes) : Violating(t, k))
    => /\ run[t].gateway_calls = max_retries
       /\ Len(run[t].outcomes) = max_retries
       /\ Len(SelectSeq(run[t].events, LAMBDA e : e.state = "VALIDATING")) = max_retries
       /\ Res(t).success = FALSE
       /\ Res(t).total_attempts = max_retries
       /\ Res(t).validation.violations # <<>>
       /\ Res(t).validation.violations = ViolationsOf(t, max_retries)

C2_Witness ==
  \E t \in Threads :
    /\ Returns(t)
    /\ max_retries = DefaultRetries
    /\ Len(run[t].outcomes) = max_retries
    /\ \A k \in 1..Len(run[t].outcomes) : Violating(t, k)
    /\ ViolationsOf(t, max_retries) # ViolationsOf(t, 1)

\* C3: a run returns success = true exactly when some attempt produced a
\* schema-valid output without violations; it returns at the first such attempt
\* k with total_attempts = k, the output and validation result of attempt k,
\* FINALIZING then COMPLETE as its last events, and no gateway call after k.
C3_SuccessAtFirstValid ==
  \A t \in Threads :
    /\ \A k \in 1..Len(run[t].outcomes) :
         Passing(t, k) => k = Len(run[t].outcomes) /\ run[t].gateway_calls = k
    /\ Returns(t) =>
         /\ Res(t).success <=> \E k \in 1..Len(run[t].outcomes) : Passing(t, k)
         /\ Res(t).success =>
              LET k == Len(run[t].outcomes)
                  n == Len(run[t].events)
              IN /\ Res(t).total_attempts = k
                 /\ Res(t).output = run[t].outcomes[k].output
                 /\ Res(t).validation.is_valid
                 /\ Res(t).validation.violations = ViolationsOf(t, k)
                 /\ Res(t).validation.attempt_number = k
                 /\ n >= 2
                 /\ run[t].events[n - 1].state = "FINALIZING"
                 /\ run[t].events[n].state = "COMPLETE"
                 /\ Res(t).events = run[t].events

C3_Witness ==
  \E t \in Threads :
    /\ Returns(t)
    /\ Res(t).success
    /\ Res(t).total_attempts = 2
    /\ max_retries = 3
    /\ Violating(t, 1)

\* C4: a run always ends by returning a structured result: whatever the store,
\* the gateway or the validation engine do, run_agent_sync never lets an
\* exception reach its caller.
C4_NeverRaises ==
  \A t \in Threads : run[t].pc # "raised"

\* C5: a run that fails after some attempt produced a schema-valid output
\* returns the last generated output and the last validation result, also when
\* the final attempt ended in a format error.
C5_LastSnapshotKept ==
  \A t \in Threads :
    (Returns(t) /\ ~Res(t).success /\ "output" \in Kinds(t))
    => /\ Res(t).output # <<>>
       /\ Res(t).output = run[t].last_output
       /\ run[t].last_validation # <<>>
       /\ Res(t).validation = run[t].last_validation[1]

\* C6: in the validation result of every returned AgentResult, is_valid is
\* true if and only if the violation list is empty.
C6_ValidIffNoViolations ==
  \A t \in Threads :
    run[t].result # <<>> =>
      (Res(t).validation.is_valid <=> Res(t).validation.violations = <<>>)

\* C7: when context retrieval fails the run emits INITIALIZING, RETRIEVING,
\* ERROR, never calls the gateway, does not ask the store again, and returns
\* success = false with total_attempts = 0 and no output.
C7_ContextFailure ==
  \A t \in Threads :
    run[t].context_error # <<>>
    => /\ Returns(t)
       /\ StatesOf(run[t].events) = <<"INITIALIZING", "RETRIEVING", "ERROR">>
       /\ run[t].gateway_calls = 0
       /\ run[t].outcomes = <<>>
       /\ ld[t].caller # "run"
       /\ Res(t).success = FALSE
       /\ Res(t).total_attempts = 0
       /\ Res(t).output = <<>>
       /\ Res(t).error_message = run[t].context_error
       /\ Res(t).events = run[t].events

C7_Witness ==
  \E t \in Threads :
    /\ Returns(t)
    /\ run[t].context_error = <<"FileNotFoundError">>
    /\ ~is_loaded

IngestPcs == {"scan", "read", "cite", "chunk", "meta", "finish"}

Ingesting == {t \in Threads : ld[t].pc \in IngestPcs}

\* C8: when several threads make the first access to the store concurrently,
\* at most one of them performs the ingestion (the others wait and reuse it).
C8_OneLoaderAtATime ==
  Cardinality(Ingesting) <= 1

\* C9: once the store is loaded and no load is in flight, any further call of
\* load_documents, with any directory, returns without reading the directory
\* and leaves the citation index, the chunks and the metadata as they are.
C9_LoadIdempotent ==
  [][ (is_loaded /\ Ingesting = {})
      => /\ storeVars' = storeVars
         /\ \A t \in Threads :
              /\ ld'[t].pc \notin IngestPcs
              /\ (ld'[t].pc = "returned" /\ ld[t].pc # "returned") => ld'[t].ret = "ok" ]_vars

C9_Witness ==
  \E t \in Threads :
    /\ is_loaded /\ Ingesting = {}
    /\ ld[t].pc = "returned" /\ ld[t].caller = "direct" /\ ld[t].ret = "ok"
    /\ ld[t].dir = AltDir /\ ~fs[AltDir].exists
    /\ Len(document_metadata) = Cardinality({n \in fs[DefaultDir].files : IsMd(n)})

\* the directory a load of thread t reads
DocDir(t) == fs[IF ld[t].dir = None THEN DefaultDir ELSE ld[t].dir]

\* C10: load_documents raises when the directory does not exist or holds no
\* eligible document, and such a failure changes nothing in the store: what was
\* empty stays empty and a store that was not loaded is still not loaded.
C10_FailedLoadChangesNothing ==
  [][ \A t \in Threads :
        (ld[t].pc = "scan" /\ ld'[t] # ld[t]
           /\ (~DocDir(t).exists \/ ~\E n \in DocDir(t).files : IsMd(n)))
        => /\ ld'[t].pc = "returned"
           /\ ld'[t].ret = "FileNotFoundError"
           /\ storeVars' = storeVars ]_vars

C10_Witness ==
  \E t \in Threads :
    /\ ld[t].pc = "returned" /\ ld[t].ret = "FileNotFoundError"
    /\ DocDir(t).exists /\ DocDir(t).files = {"notes.txt"}
    /\ ~is_loaded
    /\ citation_index = EmptyDict /\ document_chunks = <<>> /\ document_metadata = <<>>

(***************************************************************************)
(* Streaming.                                                              *)
(***************************************************************************)
\* what the generator of thread t has yielded, without the synthetic last event
Replayed(t) ==
  IF stream[t].pc = "finished"
  THEN SubSeq(stream[t].yielded, 1, Len(stream[t].yielded) - 1)
  ELSE stream[t].yielded

\* C11: for every run, the events run_agent_streaming yields, without the
\* final synthetic one, are as many as the events the synchronous run recorded
\* and have the same states in the same order; an event that is not an ERROR
\* is yielded unchanged, an ERROR event keeps its state and timestamp, has its
\* message replaced by the generic text and its data removed.
C11_ReplayIsRedactedTrace ==
  \A t \in Threads :
    Finished(t) =>
      /\ Len(Replayed(t)) = Len(run[t].events)
      /\ \A k \in 1..Len(Replayed(t)) :
           LET shown == Replayed(t)[k]
               recorded == run[t].events[k]
           IN /\ shown.state = recorded.state
              /\ shown.timestamp = recorded.timestamp
              /\ recorded.state # "ERROR" => shown = recorded
              /\ recorded.state = "ERROR" =>
                    shown.message = <<GenericError>> /\ shown.data = <<>>

\* what a client can read of error texts in the stream of thread t
Shown(t) ==
  [k \in 1..Len(stream[t].yielded) |->
     [state |-> stream[t].yielded[k].state, message |-> stream[t].yielded[k].message,
      data |-> stream[t].yielded[k].data]]

\* the runs of t and u got the same request and met the same kind of outcome
\* at every step; only the texts of the errors may differ
SameButErrorText(t, u) ==
  /\ run[t].user_prompt = run[u].user_prompt
  /\ run[t].constraints = run[u].constraints
  /\ run[t].source_context = run[u].source_context
  /\ (run[t].context_error = <<>>) <=> (run[u].context_error = <<>>)
  /\ Len(run[t].outcomes) = Len(run[u].outcomes)
  /\ \A k \in 1..Len(run[t].outcomes) :
       /\ run[t].outcomes[k].kind = run[u].outcomes[k].kind
       /\ run[t].outcomes[k].output = run[u].outcomes[k].output

\* C12: no error text crosses the streaming boundary: two runs that differ
\* only in the text of the errors raised by context retrieval or by the
\* gateway yield streams whose events have the same messages and data.
C12_NoErrorTextInStream ==
  \A t, u \in Threads :
    (Finished(t) /\ Finished(u) /\ SameButErrorText(t, u)) => Shown(t) = Shown(u)

C12_Witness ==
  /\ stream[1].pc = "finished" /\ stream[2].pc = "finished"
  /\ SameButErrorText(1, 2)
  /\ Len(run[1].outcomes) = 2
  /\ run[1].outcomes[1].kind = "format_error"
  /\ run[1].outcomes[1].error # run[2].outcomes[1].error
  /\ run[1].sent[2] # run[2].sent[2]
  /\ run[1].outcomes[2].kind = "format_error"
  /\ Res(1).error_message # Res(2).error_message

\* C13: run_agent_streaming yields exactly one synthetic event, after the
\* replayed trace and as the last event of the stream: COMPLETE with the dumped
\* output and validation when the result is a success, otherwise ERROR with
\* the validation result and the attempt count.
C13_OneFinalEvent ==
  \A t \in Threads :
    Finished(t) =>
      /\ Len(stream[t].yielded) = Len(run[t].events) + 1
      /\ LET last == stream[t].yielded[Len(stream[t].yielded)]
         IN /\ last.state = "COMPLETE" <=> Res(t).success
            /\ last.state \in {"COMPLETE", "ERROR"}
            /\ last.data[1].validation = ModelDump(Res(t).validation)
            /\ last.data[1].total_attempts = Res(t).total_attempts
            /\ Res(t).success => last.data[1].output = ModelDump(Res(t).output[1])

(***************************************************************************)
(* The validation engine called directly.                                  *)
(***************************************************************************)
Validated == direct.fn = "validate_output" /\ direct.pc = "returned"

Reported == direct.result[1].violations

\* the violations reported on a field
ReportedOn(field) == SelectSeq(Reported, LAMBDA v : v.field = field)

\* the check a violation comes from, by its field
CheckOf(v) ==
  CASE v.field[1] = "governing_jurisdiction" -> 1
    [] v.field[1] = "forbidden_clause" -> 2
    [] v.field[1] = "required_citations" -> 3
    [] v.field[1] \in {"liability.unlimited", "liability.consequential_damages"} -> 4
    [] v.field[1] \in {"data_protection.gdpr", "data_protection.breach_notification"} -> 5
    [] v.field[1] = "clause_length" -> 6

\* what the k-th check reports when it is run on its own
CheckAlone(k, output, constraints) ==
  CASE k = 1 -> CheckJurisdiction(output, constraints)
    [] k = 2 -> CheckForbiddenClauses(output, constraints)
    [] k = 3 -> CheckRequiredCitations(output, constraints)
    [] k = 4 -> CheckLiability(output, constraints)
    [] k = 5 -> CheckDataProtection(output, constraints)
    [] k = 6 -> CheckClauseLength(output, constraints)

\* C14: validate_output runs the six checks on every call and returns their
\* violations in the order jurisdiction, forbidden patterns, required
\* citations, liability, data protection, clause length: a violation of an
\* earlier check precedes every violation of a later one, and each check's
\* violations are all there whatever the earlier checks reported.
C14_SixChecksInOrder ==
  Validated =>
    /\ \A i, j \in 1..Len(Reported) : i < j => CheckOf(Reported[i]) <= CheckOf(Reported[j])
    /\ \A k \in 1..6 :
         SelectSeq(Reported, LAMBDA v : CheckOf(v) = k)
           = CheckAlone(k, direct.output, direct.constraints)

C14_Witness ==
  /\ Validated
  /\ {CheckOf(Reported[i]) : i \in 1..Len(Reported)} = 1..6

\* some clause of the output cites the source id
Cites(output, id) ==
  \E c \in 1..Len(output.clauses) :
    \E k \in 1..Len(output.clauses[c].citations) : output.clauses[c].citations[k] = id

RequiredIds == {direct.constraints.required_source_ids[k] :
                  k \in 1..Len(direct.constraints.required_source_ids)}

\* C16: for every id the profile requires, validate_output reports a MEDIUM
\* violation on required_citations naming that id exactly when no clause of
\* the output cites it; a citation in any one clause counts, and when every
\* required id is cited the check reports nothing.
C16_RequiredCitations ==
  Validated =>
    LET missing == ReportedOn(<<"required_citations">>) IN
    /\ \A k \in 1..Len(missing) :
         missing[k].severity = "medium" /\ missing[k].message[2] \in RequiredIds
    /\ \A id \in RequiredIds :
         (\E k \in 1..Len(missing) : missing[k].message[2] = id) <=> ~Cites(direct.output, id)

C16_Witness ==
  /\ Validated
  /\ direct.constraints.required_source_ids = <<"DPA-7.1", "DPA-9.1">>
  /\ Len(direct.output.clauses) = 2
  /\ direct.output.clauses[1].citations = <<>>
  /\ Cites(direct.output, "DPA-7.1") /\ ~Cites(direct.output, "DPA-9.1")
  /\ Len(ReportedOn(<<"required_citations">>)) = 1

\* the text a pattern is matched against, and the phrase it looks for
Haystack(f, output) ==
  IF f.pattern.ignore_case THEN LowerText(GetFullText(output)) ELSE GetFullText(output)

Needle(f) == IF f.pattern.ignore_case THEN LowerText(f.pattern.phrase) ELSE f.pattern.phrase

\* how many times the pattern occurs in the concatenation of the clause texts
Occurrences(f, output) ==
  Cardinality({ i \in 1..Len(Haystack(f, output)) :
                  /\ i + Len(Needle(f)) - 1 <= Len(Haystack(f, output))
                  /\ SubSeq(Haystack(f, output), i, i + Len(Needle(f)) - 1) = Needle(f) })

\* C17: each profile pattern is matched against the concatenation of all the
\* clause texts; a pattern that occurs at least once gives exactly one
\* violation at its declared severity, however often it occurs, and a pattern
\* that does not occur gives none.
C17_OnePerMatchingPattern ==
  Validated =>
    LET found == ReportedOn(<<"forbidden_clause">>)
        matching == SelectSeq(direct.constraints.forbidden_clauses,
                              LAMBDA f : Occurrences(f, direct.output) > 0)
    IN /\ Len(found) = Len(matching)
       /\ \A k \in 1..Len(found) :
            /\ found[k].severity = matching[k].severity
            /\ found[k].message[2] = matching[k].pattern.source

C17_Witness ==
  /\ Validated
  /\ direct.constraints.forbidden_clauses = <<NoConsequential, NoUnlimited>>
  /\ Occurrences(NoUnlimited, direct.output) = 3
  /\ Occurrences(NoConsequential, direct.output) = 0
  /\ Len(ReportedOn(<<"forbidden_clause">>)) = 1
  /\ ReportedOn(<<"forbidden_clause">>)[1].severity = "critical"

\* the clause texts as the liability and data-protection checks read them
LoweredText == LowerText(GetFullText(direct.output))

\* C18: when the profile disallows unlimited liability, a text containing
\* 'unlimited liability' in any letter case gives a CRITICAL violation on
\* liability.unlimited; when it disallows consequential damages, a text
\* mentioning 'consequential damage(s)' gives a HIGH violation on
\* liability.consequential_damages; an allowed or absent phrase gives none.
C18_Liability ==
  Validated =>
    LET unlimited == ReportedOn(<<"liability.unlimited">>)
        consequential == ReportedOn(<<"liability.consequential_damages">>)
    IN /\ Len(unlimited) =
            (IF /\ ~direct.constraints.liability.allows_unlimited_liability
                /\ ContainsPhrase(LoweredText, <<"unlimited", "liability">>)
             THEN 1 ELSE 0)
       /\ \A k \in 1..Len(unlimited) : unlimited[k].severity = "critical"
       /\ Len(consequential) =
            (IF /\ ~direct.constraints.liability.allows_consequential_damages
                /\ \/ ContainsPhrase(LoweredText, <<"consequential", "damage">>)
                   \/ ContainsPhrase(LoweredText, <<"consequential", "damages">>)
             THEN 1 ELSE 0)
       /\ \A k \in 1..Len(consequential) : consequential[k].severity = "high"

C18_Witness ==
  /\ Validated
  /\ ~direct.constraints.liability.allows_unlimited_liability
  /\ direct.constraints.liability.allows_consequential_damages
  /\ ContainsPhrase(GetFullText(direct.output), <<"Unlimited", "liability">>)
  /\ ~ContainsPhrase(GetFullText(direct.output), <<"unlimited", "liability">>)
  /\ ContainsPhrase(GetFullText(direct.output), <<"Consequential", "damage">>)
  /\ Len(ReportedOn(<<"liability.unlimited">>)) = 1
  /\ ReportedOn(<<"liability.consequential_damages">>) = <<>>

\* C19: when GDPR compliance is required, exactly one HIGH violation on
\* data_protection.gdpr is reported if and only if neither 'gdpr' nor 'general
\* data protection' occurs in the text, in any letter case; when breach
\* notification is required, a HIGH violation on
\* data_protection.breach_notification is reported if and only if neither
\* 'breach' nor 'notification' occurs, its suggestion naming the profile's
\* maximum notice hours.
C19_DataProtection ==
  Validated =>
    LET dp == direct.constraints.data_protection
        gdpr == ReportedOn(<<"data_protection.gdpr">>)
        breach == ReportedOn(<<"data_protection.breach_notification">>)
    IN /\ dp.requires_gdpr_compliance =>
            /\ Len(gdpr) =
                 (IF /\ ~ContainsPhrase(LoweredText, <<"gdpr">>)
                     /\ ~ContainsPhrase(LoweredText, <<"general", "data", "protection">>)
                  THEN 1 ELSE 0)
            /\ \A k \in 1..Len(gdpr) : gdpr[k].severity = "high"
       /\ dp.requires_breach_notification =>
            /\ Len(breach) =
                 (IF /\ ~ContainsPhrase(LoweredText, <<"breach">>)
                     /\ ~ContainsPhrase(LoweredText, <<"notification">>)
                  THEN 1 ELSE 0)
            /\ \A k \in 1..Len(breach) :
                 /\ breach[k].severity = "high"
                 /\ breach[k].suggestion[2] = dp.max_breach_notification_hours

C19_Witness ==
  /\ Validated
  /\ direct.constraints.data_protection.requires_gdpr_compliance
  /\ direct.constraints.data_protection.requires_breach_notification
  /\ ~ContainsPhrase(LoweredText, <<"gdpr">>)
  /\ ContainsPhrase(LoweredText, <<"general", "data", "protection">>)
  /\ ReportedOn(<<"data_protection.gdpr">>) = <<>>
  /\ Len(ReportedOn(<<"data_protection.breach_notification">>)) = 1
  /\ ReportedOn(<<"data_protection.breach_notification">>)[1].suggestion[2] = 36

(***************************************************************************)
(* Citation extraction called directly.                                    *)
(***************************************************************************)
Parsed == direct.fn = "_parse_citations" /\ direct.pc = "returned"

Anchors(content) == {i \in 1..Len(content) : content[i].kind = "anchor"}

\* the first line after anchor i that is an anchor, a heading or a rule, or
\* one past the end of the document
Boundary(content, i) ==
  IF \E j \in (i + 1)..Len(content) : content[j].kind \in {"anchor", "heading", "hr"}
  THEN CHOOSE j \in (i + 1)..Len(content) :
         /\ content[j].kind \in {"anchor", "heading", "hr"}
         /\ \A m \in (i + 1)..(j - 1) : content[m].kind \notin {"anchor", "heading", "hr"}
  ELSE Len(content) + 1

\* the text between anchor i and its boundary
TextAfter(content, i) ==
  LET between == SelectSeq(SubSeq(content, i + 1, Boundary(content, i) - 1),
                           LAMBDA l : l.kind = "text")
  IN [k \in 1..Len(between) |-> between[k].title]

\* C20: the citation text of an anchor is the document text from right after
\* the anchor up to the earliest of the next anchor, the next heading line, a
\* horizontal-rule line and the end of the document; an anchor whose text is
\* empty records no citation, so every recorded citation has a text.  (Of two
\* anchors with the same id the later one with a text is the one recorded.)
C20_CitationText ==
  Parsed =>
    LET content == direct.content
        citations == direct.result[1]
        recorded == {i \in Anchors(content) : TextAfter(content, i) # <<>>}
    IN /\ DOMAIN citations = {content[i].id : i \in recorded}
       /\ \A id \in DOMAIN citations : citations[id].text # <<>>
       /\ \A i \in recorded :
            (\A j \in recorded : content[j].id = content[i].id => j <= i)
              => citations[content[i].id].text = TextAfter(content, i)

C20_Witness ==
  /\ Parsed
  /\ direct.content = << A("X-2"), A("X-1"), T("alpha", 10), HR, T("beta", 12) >>
  /\ DOMAIN direct.result[1] = {"X-1"}
  /\ direct.result[1]["X-1"].text = <<"alpha">>

\* the anchor whose citation is recorded under id: the last one with a text
RecordedAnchor(content, id) ==
  CHOOSE i \in Anchors(content) :
    /\ content[i].id = id /\ TextAfter(content, i) # <<>>
    /\ \A j \in Anchors(content) :
         (content[j].id = id /\ TextAfter(content, j) # <<>>) => j <= i

\* the second-level headings before line i
SectionsBefore(content, i) ==
  {j \in 1..(i - 1) : content[j].kind = "heading" /\ content[j].level = 2}

\* C21: the section heading recorded for a citation is the text of the nearest
\* second-level heading before its anchor, and 'Introduction' when there is
\* none; headings of any other level before the anchor do not change it.
C21_SectionIsSecondLevel ==
  Parsed =>
    \A id \in DOMAIN direct.result[1] :
      LET content == direct.content
          i == RecordedAnchor(content, id)
          sections == SectionsBefore(content, i)
      IN direct.result[1][id].section_heading =
           (IF sections = {} THEN "Introduction"
            ELSE content[CHOOSE j \in sections : \A m \in sections : m <= j].title)

(***************************************************************************)
(* Chunking called directly.                                               *)
(***************************************************************************)
Chunked == direct.fn = "_chunk_document" /\ direct.pc = "returned"

\* the chunk comes from the paragraph loop of an oversized section
FromSplit(chunk) == chunk.chunk_id[3] >= 0

\* the paragraphs the chunk's text was accumulated from
ParagraphCount(chunk) ==
  Cardinality({i \in 1..Len(chunk.text) : chunk.text[i].kind = "blank"}) + 1

\* C22: when an oversized section is split on paragraph boundaries, a chunk is
\* flushed before a paragraph would make it exceed the size threshold, so a
\* chunk accumulated from two or more paragraphs is at most ChunkSize long;
\* only a chunk of a single paragraph longer than the threshold may exceed it.
C22_ChunkSizeBound ==
  Chunked =>
    \A k \in 1..Len(direct.result[1]) :
      LET chunk == direct.result[1][k] IN
      (FromSplit(chunk) /\ ParagraphCount(chunk) >= 2) => StrLen(chunk.text) <= ChunkSize

(***************************************************************************)
(* Context selection called directly.                                      *)
(***************************************************************************)
Selected == direct.fn = "_get_relevant_context" /\ direct.pc = "returned"

\* the place in the store of the chunk a part of the context was built from
PlaceOf(part) == CHOOSE k \in 1..Len(direct.chunks) : direct.chunks[k].chunk_id = part.chunk_id

\* the store holds a chunk of the document the contract type maps to
SomeChunkMatches ==
  \E k \in 1..Len(direct.chunks) :
    direct.chunks[k].document_name = TypeToPrefix(direct.constraints.contract_type)

OpensAttempt(event, k) ==
  /\ event.state = "DRAFTING"
  /\ event.data # <<>>
  /\ "attempt" \in DOMAIN event.data[1]
  /\ event.data[1].attempt = k

\* the attempt an event of the run belongs to: the attempt opened last before it
AttemptOf(events, i) ==
  LET opened == { k \in 1..Len(events) : \E j \in 1..i : OpensAttempt(events[j], k) }
  IN IF opened = {} THEN 0 ELSE MaxOf(opened)

\* what AgentOutput promises of an output
SchemaValid(o) ==
  /\ Len(o.clauses) >= 1
  /\ \A k \in 1..Len(o.clauses) :
       LET text == o.clauses[k].text IN
       text # <<>> /\ Head(text) # " " /\ text[Len(text)] # " "
  /\ o.confidence_score >= 0
  /\ o.confidence_score <= 100

\* C24: in an attempt whose gateway call fails with a format error neither
\* VALIDATING nor VIOLATION_FOUND is emitted and validate_output is not called;
\* every output validate_output is called with has at least one clause, clause
\* texts that are trimmed and not empty, and a confidence score within [0,1].
C24_FormatErrorNeverValidated ==
  LET r == run[1] IN
  /\ \A k \in 1..Len(r.outcomes) :
       r.outcomes[k].kind = "format_error" =>
         /\ \A i \in 1..Len(r.events) :
              AttemptOf(r.events, i) = k =>
                r.events[i].state \notin {"VALIDATING", "VIOLATION_FOUND"}
         /\ \A j \in 1..Len(r.validated) : r.validated[j].attempt # k
  /\ \A j \in 1..Len(r.validated) : SchemaValid(r.validated[j].output)

C24_Witness ==
  LET r == run[1] IN
  /\ r.pc = "done"
  /\ Len(r.outcomes) = 3
  /\ r.outcomes[1].kind = "output"
  /\ r.outcomes[2].kind = "format_error"
  /\ r.outcomes[2].error = "LLM output failed schema validation"
  /\ r.outcomes[3].kind = "output"
  /\ Len(r.validated) = 2
  /\ r.validated[2].attempt = 3

\* the corrective text attempt j of run t produced: the failure note of a
\* format error, the rendering of the violations otherwise
FeedbackOf(t, j) ==
  IF run[t].outcomes[j].kind = "format_error"
  THEN FailureNote(run[t].outcomes[j].error)
  ELSE BuildRetryContext(ViolationsOf(t, j))

PartsOf(prompt) == { prompt[i] : i \in 1..Len(prompt) }

\* C25: the prompt of attempt 1 is the raw user prompt; the prompt of every
\* later attempt is the user prompt followed by corrective text in which the
\* feedback of each earlier failed attempt is still present, also across a
\* format error.
C25_PromptAccumulates ==
  LET r == run[1] IN
  \A k \in 1..Len(r.sent) :
    LET prompt == r.sent[k].user_prompt IN
    /\ prompt[1] = UserPart(r.user_prompt)
    /\ k = 1 => Len(prompt) = 1
    /\ \A j \in 1..(k - 1) : FeedbackOf(1, j) \in PartsOf(prompt)

\* C26: INITIALIZING is the first event and occurs once; a RETRIEVING precedes
\* every DRAFTING; VALIDATING comes after a DRAFTING of the same attempt;
\* VIOLATION_FOUND and FINALIZING come directly after VALIDATING; CORRECTING
\* comes directly after VIOLATION_FOUND, only while attempts remain, and the
\* DRAFTING of the next attempt follows it directly; COMPLETE comes directly
\* after FINALIZING.
C26_EventOrder ==
  LET r == run[1]
      ev == r.events
      s == StatesOf(ev)
      n == Len(ev)
  IN
  /\ n >= 1 => s[1] = "INITIALIZING"
  /\ \A i \in 2..n : s[i] # "INITIALIZING"
  /\ \A i \in 1..n : s[i] = "DRAFTING" => \E j \in 1..(i - 1) : s[j] = "RETRIEVING"
  /\ \A i \in 1..n :
       s[i] = "VALIDATING" =>
         /\ AttemptOf(ev, i) >= 1
         /\ \E j \in 1..(i - 1) : s[j] = "DRAFTING" /\ AttemptOf(ev, j) = AttemptOf(ev, i)
  /\ \A i \in 1..n :
       s[i] \in {"VIOLATION_FOUND", "FINALIZING"} => i > 1 /\ s[i - 1] = "VALIDATING"
  /\ \A i \in 1..n :
       s[i] = "CORRECTING" =>
         /\ i > 1 /\ s[i - 1] = "VIOLATION_FOUND"
         /\ AttemptOf(ev, i) < max_retries
         /\ IF i < n THEN OpensAttempt(ev[i + 1], AttemptOf(ev, i) + 1)
            ELSE r.pc = "draft" /\ r.attempt = AttemptOf(ev, i) + 1
  /\ \A i \in 1..n : s[i] = "COMPLETE" => i > 1 /\ s[i - 1] = "FINALIZING"

C26_Witness ==
  LET s == StatesOf(run[1].events) IN
  /\ run[1].pc = "done"
  /\ Len(s) >= 2
  /\ s[Len(s)] = "COMPLETE"
  /\ \E i \in 1..Len(s) : s[i] = "CORRECTING"

HasError(t) == \E i \in 1..Len(run[t].events) : run[t].events[i].state = "ERROR"

\* C27 as claimed: once an ERROR event has been emitted the run emits no
\* further event and makes no further gateway call.
C27_ErrorIsTerminal ==
  [][ HasError(1) =>
        /\ run'[1].events = run[1].events
        /\ run'[1].gateway_calls = run[1].gateway_calls ]_vars

\* the ERROR event of a format error on an attempt after which attempts remain
RetriedError(events, i) ==
  /\ events[i].state = "ERROR"
  /\ events[i].message[1] = "LLM output error"
  /\ AttemptOf(events, i) < max_retries

\* C27 as amended: the ERROR event of a format error on an attempt that is not
\* the last is followed directly by the DRAFTING of the next attempt; every
\* other ERROR event is the last event of the run, which has returned and has
\* made as many gateway calls as attempts were opened before it.
C27_ErrorEndsRunUnlessRetried ==
  LET r == run[1]
      ev == r.events
      n == Len(ev)
  IN
  \A i \in 1..n :
    ev[i].state = "ERROR" =>
      IF RetriedError(ev, i)
      THEN IF i < n THEN OpensAttempt(ev[i + 1], AttemptOf(ev, i) + 1)
           ELSE r.pc = "draft" /\ r.attempt = AttemptOf(ev, i) + 1
      ELSE /\ i = n
           /\ r.pc = "done"
           /\ r.gateway_calls = AttemptOf(ev, i)

C27_Witness ==
  LET r == run[1]
      ev == r.events
      n == Len(ev)
  IN
  /\ r.pc = "done"
  /\ n >= 2
  /\ ev[n].state = "ERROR"
  /\ \E i \in 1..(n - 1) : RetriedError(ev, i) /\ ev[i + 1].state = "DRAFTING"

\* the run has returned and every gateway call it made failed with a format error
OnlyFormatErrors(t) ==
  /\ Returns(t)
  /\ run[t].outcomes # <<>>
  /\ \A k \in 1..Len(run[t].outcomes) : run[t].outcomes[k].kind = "format_error"

CountState(events, state) == Cardinality({ i \in 1..Len(events) : events[i].state = state })

\* C28: a run whose gateway call fails with a format error on every attempt
\* returns success = false with no output, an empty violation list,
\* total_attempts = max_retries and the message of the last gateway error;
\* its events hold one ERROR per attempt and no VALIDATING.
C28_AllFormatErrors ==
  OnlyFormatErrors(1) =>
    LET r == run[1]
        ev == Res(1).events
    IN
    /\ Res(1).success = FALSE
    /\ Res(1).output = <<>>
    /\ Res(1).validation.violations = <<>>
    /\ Res(1).total_attempts = max_retries
    /\ Len(r.outcomes) = max_retries
    /\ Res(1).error_message = << r.outcomes[max_retries].error >>
    /\ CountState(ev, "ERROR") = max_retries
    /\ \A k \in 1..max_retries :
         Cardinality({ i \in 1..Len(ev) : ev[i].state = "ERROR" /\ AttemptOf(ev, i) = k }) = 1
    /\ CountState(ev, "VALIDATING") = 0

C28_Witness ==
  /\ OnlyFormatErrors(1)
  /\ max_retries = 3
  /\ run[1].outcomes[1].error # run[1].outcomes[3].error
  /\ Res(1).error_message = << "LLM output failed schema validation" >>

\* runs t and u were given the same inputs, their gateway calls had the same
\* outcomes and their reads of the source files failed alike or not at all
SameInputs(t, u) ==
  /\ run[t].user_prompt = run[u].user_prompt
  /\ run[t].constraints = run[u].constraints
  /\ run[t].outcomes = run[u].outcomes
  /\ run[t].context_error = run[u].context_error

\* C29: two runs in parallel are isolated: the event list a run returns is the
\* list of its own events in the order it emitted them, and its prompts,
\* output, validation result and attempt count are decided by its own inputs
\* and gateway outcomes alone, so that two runs that agree on these return the
\* same, whatever the other run did meanwhile.
C29_RunsIsolated ==
  \A t \in Threads :
    /\ Returns(t) => Res(t).events = run[t].events
    /\ \A u \in Threads :
         (Returns(t) /\ Returns(u) /\ SameInputs(t, u)) =>
           /\ run[t].sent = run[u].sent
           /\ Res(t) = Res(u)

Started(t) == run[t].pc # "idle"

\* C30: every run that was started returns a final result, given that each
\* gateway call comes back; the attempt index never goes down and each gateway
\* call is made for the attempt after the one of the call before.
C30_RunTerminates ==
  /\ Started(1) ~> Returns(1)
  /\ [][ /\ run'[1].attempt >= run[1].attempt
         /\ run'[1].gateway_calls # run[1].gateway_calls =>
              /\ run'[1].gateway_calls = run[1].gateway_calls + 1
              /\ run'[1].attempt = run'[1].gateway_calls ]_vars

\* C31: a refresh token is exchanged at most once: no token occurs twice among
\* the refresh tokens /auth/refresh has accepted.
C31_RefreshSingleUse ==
  \A i \in 1..Len(refreshed) : \A j \in 1..Len(refreshed) :
    i # j => refreshed[i] # refreshed[j]

\* the names between the separators of a path
RECURSIVE Components(_)
Components(s) ==
  IF s = <<>> THEN << <<>> >>
  ELSE LET rest == Components(Tail(s)) IN
       IF Head(s) \in {"/", "\\"} THEN << <<>> >> \o rest
       ELSE << <<Head(s)>> \o rest[1] >> \o Tail(rest)

\* the directories a path leads through once . and .. are followed
RECURSIVE Resolve(_, _)
Resolve(names, stack) ==
  IF names = <<>> THEN stack
  ELSE LET name == Head(names) IN
       IF name = <<>> \/ name = <<".">> THEN Resolve(Tail(names), stack)
       ELSE IF name = <<".", ".">> /\ stack # <<>> /\ stack[Len(stack)] # <<".", ".">>
       THEN Resolve(Tail(names), SubSeq(stack, 1, Len(stack) - 1))
       ELSE Resolve(Tail(names), Append(stack, name))

\* file_path is the storage directory of user_id or lies below it
InStorageOf(file_path, user_id) ==
  LET at == Resolve(Components(file_path), <<>>)
      dir == SelectSeq(user_id, LAMBDA c : c \in {"a", "b"})
  IN dir # <<>> /\ Len(at) >= 2 /\ at[1] = <<Uploads>> /\ at[2] = dir

Accessed == direct.fn = "validate_file_access" /\ direct.pc = "returned"

\* C32: validate_file_access(u, path) returns true only for a path inside the
\* storage directory of u, and never for a path inside the storage directory
\* of another user id.
C32_FileIsolation ==
  (Accessed /\ direct.result[1] = "True") =>
    /\ InStorageOf(direct.file_path, direct.user_id)
    /\ \A v \in UserIds : v # direct.user_id => ~InStorageOf(direct.file_path, v)

\* thread t parses the citations of its current file in this step
Cites_(t) == ld[t].pc = "cite" /\ ld'[t].pc = "chunk"

\* the ids a document defines: those of its anchors that have a text
DefinedIds(content) ==
  { content[i].id : i \in { j \in Anchors(content) : TextAfter(content, j) # <<>> } }

\* the place of a file name in alphabetical order
AlphaRank(name) == CHOOSE k \in 1..Len(FileOrder) : FileOrder[k] = name

\* C33: the citation index holds one entry per source id, the one parsed last:
\* when a file is parsed, each id it defines gets the entry of its last
\* definition in that file, every other entry stays, and a load takes the files
\* in alphabetical order of their names.
C33_LastDefinitionWins ==
  [][ \A t \in Threads :
        /\ Cites_(t) =>
             LET content == FileContent(CurFile(t))
                 defined == DefinedIds(content)
             IN /\ DOMAIN citation_index' = DOMAIN citation_index \cup defined
                /\ \A id \in defined :
                     LET last == RecordedAnchor(content, id) IN
                     /\ citation_index'[id].text = TextAfter(content, last)
                     /\ citation_index'[id].document_name = Stem(CurFile(t))
                /\ \A id \in DOMAIN citation_index \ defined :
                     citation_index'[id] = citation_index[id]
        /\ \A i \in 1..Len(ld'[t].md_files) : \A j \in 1..Len(ld'[t].md_files) :
             i < j => AlphaRank(ld'[t].md_files[i]) < AlphaRank(ld'[t].md_files[j]) ]_vars

C33_Witness ==
  /\ is_loaded
  /\ "SHARED-1" \in DOMAIN citation_index
  /\ citation_index["SHARED-1"].document_name = "zegal_msa"
  /\ citation_index["SHARED-1"].text = <<"msa wording">>
  /\ citation_index["MSA-2.1"].text = <<"cap revised">>

C35_TraceEndMatchesResult ==
  LET r == run[1]
      ev == r.events
      s == StatesOf(ev)
      n == Len(ev)
  IN
  /\ Returns(1) =>
       /\ n >= 1
       /\ s[n] = "COMPLETE" <=> Res(1).success
       /\ s[n] = "ERROR" <=> ~Res(1).success
       /\ ~Res(1).success => \A i \in 1..n : s[i] \notin {"FINALIZING", "COMPLETE"}
  /\ \A i \in 1..n :
       (s[i] = "VIOLATION_FOUND" /\ AttemptOf(ev, i) = max_retries) =>
         /\ n = i + 1
         /\ s[n] = "ERROR"
         /\ Returns(1)

\* a run that was corrected once and ran out of attempts on a violation
C35_Witness ==
  LET s == StatesOf(run[1].events) IN
  /\ Returns(1)
  /\ ~Res(1).success
  /\ max_retries = 2
  /\ \E i \in 1..Len(s) : s[i] = "CORRECTING"
  /\ Len(s) >= 2
  /\ s[Len(s) - 1] = "VIOLATION_FOUND"
  /\ s[Len(s)] = "ERROR"

\* C36: the validation result of the result of a run that has returned has
\* an attempt_number equal to the result's total_attempts.
C36_ValidationStampedWithAttempt ==
  Returns(1) => Res(1).validation.attempt_number = Res(1).total_attempts

\* C37: the total_attempts of the result of a run that has returned is the
\* number of gateway calls the run made, each of them answered: 0 when context
\* retrieval failed, the number of the succeeding attempt on success, and
\* max_retries on every other failure.
C37_AttemptsCountGatewayCalls ==
  LET r == run[1] IN
  Returns(1) =>
    /\ Res(1).total_attempts = r.gateway_calls
    /\ Len(r.sent) = r.gateway_calls
    /\ Len(r.outcomes) = r.gateway_calls
    /\ r.context_error # <<>> => r.gateway_calls = 0
    /\ Res(1).success => r.gateway_calls = r.attempt /\ r.gateway_calls >= 1
    /\ (~Res(1).success /\ r.context_error = <<>>) => r.gateway_calls = max_retries

\* a run whose budget of two calls ended on a format error of the gateway
C37_Witness ==
  LET r == run[1] IN
  /\ Returns(1)
  /\ max_retries = 2
  /\ Len(r.outcomes) = 2
  /\ r.outcomes[1].kind = "output"
  /\ r.outcomes[2].kind = "format_error"
  /\ Res(1).total_attempts = 2

NoRepeat(seq) == \A i \in 1..Len(seq) : \A j \in 1..Len(seq) : i # j => seq[i] # seq[j]

\* C38: whenever no load is in progress, whatever loads failed or succeeded
\* before, each chunk id occurs at most once in the chunk list and each
\* document has at most one entry in the metadata list.
C38_FailedLoadLeavesNoTrace ==
  Ingesting = {} =>
    /\ NoRepeat([k \in 1..Len(document_chunks) |-> document_chunks[k].chunk_id])
    /\ NoRepeat([k \in 1..Len(document_metadata) |-> document_metadata[k].filename])

====
